---- MODULE Spec2Model ----
(***************************************************************************)
(* The AVL ordered index of avl_tree_production.py (class AVLTree) as a    *)
(* state machine.  A node is a record [val, left, right, height]; an       *)
(* absent child is NoNode.  The object's mutable fields are root and size; *)
(* max_size and max_depth are fixed at construction.  Every public method  *)
(* is an operator on the pair [root, size] that returns the new pair and   *)
(* the method's outcome (the returned value or the exception raised), and  *)
(* one action applies it.                                                  *)
(***************************************************************************)
EXTENDS Integers, Sequences, FiniteSets, TLC

VARIABLES
    root,        \* AVLTree.root
    size,        \* AVLTree._size
    max_size,    \* AVLTree._max_size (None = unlimited)
    max_depth,   \* AVLTree._max_depth
    lastOp,      \* the public method called last
    lastKey,     \* its key argument (insert, delete)
    lastKeys,    \* its list argument (from_list)
    lastResult,  \* what it returned or raised
    prev,        \* [root, size] as they were when that call started
    insertOnly,  \* history: only insert has been called since construction
    inserted,    \* history: keys for which insert returned True (while insertOnly)
    lastNode,    \* the entry search returned (NoNode = None)
    lastValue,   \* the key get_min / get_max returned (None on an empty index)
    lock,        \* AVLTree._lock: [owner, count], owner 0 when free
    thr,         \* the calls in progress, per thread
    hist,        \* history of the insert and delete calls (when it is kept)
    candidates   \* CandidateScoreTracker._candidates: id -> overall score

vars == <<root, size, max_size, max_depth, lastOp, lastKey, lastKeys,
          lastResult, prev, insertOnly, inserted, lastNode, lastValue,
          lock, thr, hist, candidates>>

(* ------------------------------ bounds --------------------------------- *)

\* keys are the integers 1..MaxKey
MaxKey == 4
\* from_list is called with lists of at most MaxLen elements
MaxLen == 1
\* max_size is None or one of 0..MaxSizeCfg
MaxSizeCfg == 2
\* max_depth is the default or one of 0..MaxDepthCfg
MaxDepthCfg == 2

\* the number of threads that share the index
NThreads == 2

\* the keys 1..MaxAscending are inserted by the client of SpecAscending
MaxAscending == 7

\* overall scores of the candidates are 0..MaxScore
MaxScore == 1

(* ----------------------------- constants ------------------------------- *)

\* Python's None, as a key argument and as max_size
None == -1
\* the default of the constructor's max_depth parameter
DefaultMaxDepth == 1000
\* an absent child / the empty tree (a None node reference)
NoNode == <<>>

Keys == 1..MaxKey
KeyArgs == Keys \cup {None}
KeyLists == UNION {[1..n -> KeyArgs] : n \in 0..MaxLen}
MaxSizes == {None} \cup (0..MaxSizeCfg)
MaxDepths == (0..MaxDepthCfg) \cup {DefaultMaxDepth}

max(a, b) == IF a >= b THEN a ELSE b

(* -------------------------------- nodes -------------------------------- *)

AVLNode(key) == [val |-> key, left |-> NoNode, right |-> NoNode, height |-> 1]

_get_height(node) == IF node = NoNode THEN 0 ELSE node.height

_get_balance_factor(node) ==
    IF node = NoNode THEN 0
    ELSE _get_height(node.left) - _get_height(node.right)

(* ------------------------------ rotations ------------------------------ *)

\* a right rotation that recomputes y's height before z's
_rotate_right_y_height_first(z) ==
    LET y  == z.left
        T3 == y.right
        z1 == [z EXCEPT !.left = T3]
        y1 == [y EXCEPT !.right = z1]
        yh == 1 + max(_get_height(y1.left), _get_height(y1.right))
        z2 == [z1 EXCEPT !.height = 1 + max(_get_height(z1.left), _get_height(z1.right))]
    IN  [y EXCEPT !.right = z2, !.height = yh]

_rotate_right(z) ==
    LET y  == z.left
        T3 == y.right
        z1 == [z EXCEPT !.left = T3]
        z2 == [z1 EXCEPT !.height = 1 + max(_get_height(z1.left), _get_height(z1.right))]
        y1 == [y EXCEPT !.right = z2]
    IN  [y1 EXCEPT !.height = 1 + max(_get_height(y1.left), _get_height(y1.right))]

\* a left rotation that leaves the subtree as it is
_rotate_left_identity(z) == z

\* a left rotation that returns y without linking z below it
_rotate_left_unlinks_z(z) == z.right

_rotate_left(z) ==
    LET y  == z.right
        T2 == y.left
        z1 == [z EXCEPT !.right = T2]
        z2 == [z1 EXCEPT !.height = 1 + max(_get_height(z1.left), _get_height(z1.right))]
        y1 == [y EXCEPT !.left = z2]
    IN  [y1 EXCEPT !.height = 1 + max(_get_height(y1.left), _get_height(y1.right))]

\* _rebalance with the rotations left out
_rebalance_norotate(node) == node

\* _rebalance that never makes the first rotation of a double rotation
_rebalance_single_only(node) ==
    LET balance == _get_balance_factor(node) IN
    IF balance > 1 THEN _rotate_right(node)
    ELSE IF balance < -1 THEN _rotate_left(node)
    ELSE node

_rebalance(node) ==
    LET balance == _get_balance_factor(node) IN
    IF balance > 1 THEN
        IF _get_balance_factor(node.left) >= 0
        THEN _rotate_right(node)
        ELSE _rotate_right([node EXCEPT !.left = _rotate_left(node.left)])
    ELSE IF balance < -1 THEN
        IF _get_balance_factor(node.right) <= 0
        THEN _rotate_left(node)
        ELSE _rotate_left([node EXCEPT !.right = _rotate_right(node.right)])
    ELSE node

(* ----------------------------- validation ------------------------------ *)

\* a validation that lets None through
_validate_key_accepts_none(key) == FALSE

\* TRUE when _validate_key raises AVLTreeKeyError (integer keys are comparable)
_validate_key(key) == key = None

(* ------------------------------- insert -------------------------------- *)

\* _insert_recursive that drops the result of the recursive call on the left
\* (node.left is not assigned)
RECURSIVE _insert_recursive_left_unassigned(_, _, _)
_insert_recursive_left_unassigned(node, key, depth) ==
    IF depth > max_depth THEN [raised |-> TRUE, node |-> node, added |-> 0]
    ELSE IF node = NoNode THEN [raised |-> FALSE, node |-> AVLNode(key), added |-> 1]
    ELSE IF key < node.val THEN
        LET r == _insert_recursive_left_unassigned(node.left, key, depth + 1) IN
        IF r.raised THEN [raised |-> TRUE, node |-> node, added |-> 0]
        ELSE [raised |-> FALSE, node |-> _rebalance(node), added |-> r.added]
    ELSE IF key > node.val THEN
        LET r == _insert_recursive_left_unassigned(node.right, key, depth + 1) IN
        IF r.raised THEN [raised |-> TRUE, node |-> node, added |-> 0]
        ELSE LET n1 == [node EXCEPT !.right = r.node]
                 n2 == [n1 EXCEPT !.height =
                           1 + max(_get_height(n1.left), _get_height(n1.right))]
             IN  [raised |-> FALSE, node |-> _rebalance(n2), added |-> r.added]
    ELSE [raised |-> FALSE, node |-> node, added |-> 0]

\* The result is [raised, node, added]: whether AVLTreeDepthError was raised,
\* the subtree's new root, and by how much _size was incremented.  An
\* exception leaves the node untouched: the assignment to node.left /
\* node.right that would follow the recursive call is never executed.
RECURSIVE _insert_recursive(_, _, _)
_insert_recursive(node, key, depth) ==
    IF depth > max_depth THEN [raised |-> TRUE, node |-> node, added |-> 0]
    ELSE IF node = NoNode THEN [raised |-> FALSE, node |-> AVLNode(key), added |-> 1]
    ELSE IF key < node.val THEN
        LET r == _insert_recursive(node.left, key, depth + 1) IN
        IF r.raised THEN [raised |-> TRUE, node |-> node, added |-> 0]
        ELSE LET n1 == [node EXCEPT !.left = r.node]
                 n2 == [n1 EXCEPT !.height =
                           1 + max(_get_height(n1.left), _get_height(n1.right))]
             IN  [raised |-> FALSE, node |-> _rebalance(n2), added |-> r.added]
    ELSE IF key > node.val THEN
        LET r == _insert_recursive(node.right, key, depth + 1) IN
        IF r.raised THEN [raised |-> TRUE, node |-> node, added |-> 0]
        ELSE LET n1 == [node EXCEPT !.right = r.node]
                 n2 == [n1 EXCEPT !.height =
                           1 + max(_get_height(n1.left), _get_height(n1.right))]
             IN  [raised |-> FALSE, node |-> _rebalance(n2), added |-> r.added]
    ELSE [raised |-> FALSE, node |-> node, added |-> 0]

\* insert with the capacity test written > instead of >=
insert_capacity_off_by_one(self, key) ==
    IF _validate_key(key)
    THEN [root |-> self.root, size |-> self.size, result |-> "AVLTreeKeyError"]
    ELSE IF max_size # None /\ self.size > max_size
    THEN [root |-> self.root, size |-> self.size, result |-> "AVLTreeCapacityError"]
    ELSE IF _get_height(self.root) >= max_depth
    THEN [root |-> self.root, size |-> self.size, result |-> "AVLTreeDepthError"]
    ELSE LET original_size == self.size
             r == _insert_recursive(self.root, key, 0)
             new_size == self.size + r.added
         IN  IF r.raised
             THEN [root |-> self.root, size |-> self.size, result |-> "AVLTreeDepthError"]
             ELSE [root |-> r.node, size |-> new_size,
                   result |-> IF new_size > original_size THEN "True" ELSE "False"]

\* insert that tests the height after the insertion instead of before it
insert_depth_test_after(self, key) ==
    IF _validate_key(key)
    THEN [root |-> self.root, size |-> self.size, result |-> "AVLTreeKeyError"]
    ELSE IF max_size # None /\ self.size >= max_size
    THEN [root |-> self.root, size |-> self.size, result |-> "AVLTreeCapacityError"]
    ELSE LET original_size == self.size
             r == _insert_recursive(self.root, key, 0)
             new_size == self.size + r.added
         IN  IF r.raised
             THEN [root |-> self.root, size |-> self.size, result |-> "AVLTreeDepthError"]
             ELSE IF _get_height(r.node) > max_depth
             THEN [root |-> r.node, size |-> new_size, result |-> "AVLTreeDepthError"]
             ELSE [root |-> r.node, size |-> new_size,
                   result |-> IF new_size > original_size THEN "True" ELSE "False"]

\* insert that tests the height before the capacity
insert_depth_test_first(self, key) ==
    IF _validate_key(key)
    THEN [root |-> self.root, size |-> self.size, result |-> "AVLTreeKeyError"]
    ELSE IF _get_height(self.root) >= max_depth
    THEN [root |-> self.root, size |-> self.size, result |-> "AVLTreeDepthError"]
    ELSE IF max_size # None /\ self.size >= max_size
    THEN [root |-> self.root, size |-> self.size, result |-> "AVLTreeCapacityError"]
    ELSE LET original_size == self.size
             r == _insert_recursive(self.root, key, 0)
             new_size == self.size + r.added
         IN  IF r.raised
             THEN [root |-> self.root, size |-> self.size, result |-> "AVLTreeDepthError"]
             ELSE [root |-> r.node, size |-> new_size,
                   result |-> IF new_size > original_size THEN "True" ELSE "False"]

\* insert with the height test written > instead of >=
insert_height_test_gt(self, key) ==
    IF _validate_key(key)
    THEN [root |-> self.root, size |-> self.size, result |-> "AVLTreeKeyError"]
    ELSE IF max_size # None /\ self.size >= max_size
    THEN [root |-> self.root, size |-> self.size, result |-> "AVLTreeCapacityError"]
    ELSE IF _get_height(self.root) > max_depth
    THEN [root |-> self.root, size |-> self.size, result |-> "AVLTreeDepthError"]
    ELSE LET original_size == self.size
             r == _insert_recursive(self.root, key, 0)
             new_size == self.size + r.added
         IN  IF r.raised
             THEN [root |-> self.root, size |-> self.size, result |-> "AVLTreeDepthError"]
             ELSE [root |-> r.node, size |-> new_size,
                   result |-> IF new_size > original_size THEN "True" ELSE "False"]

\* self is [root, size]; the result is the new [root, size] and the outcome.
insert(self, key) ==
    IF _validate_key(key)
    THEN [root |-> self.root, size |-> self.size, result |-> "AVLTreeKeyError"]
    ELSE IF max_size # None /\ self.size >= max_size
    THEN [root |-> self.root, size |-> self.size, result |-> "AVLTreeCapacityError"]
    ELSE IF _get_height(self.root) >= max_depth
    THEN [root |-> self.root, size |-> self.size, result |-> "AVLTreeDepthError"]
    ELSE LET original_size == self.size
             r == _insert_recursive(self.root, key, 0)
             new_size == self.size + r.added
         IN  IF r.raised
             THEN [root |-> self.root, size |-> self.size, result |-> "AVLTreeDepthError"]
             ELSE [root |-> r.node, size |-> new_size,
                   result |-> IF new_size > original_size THEN "True" ELSE "False"]

\* what insert does after its capacity and height tests have passed: the
\* recursive insertion and the assignment of its result
insert_body(self, key) ==
    LET original_size == self.size
        r == _insert_recursive(self.root, key, 0)
        new_size == self.size + r.added
    IN  IF r.raised
        THEN [root |-> self.root, size |-> self.size, result |-> "AVLTreeDepthError"]
        ELSE [root |-> r.node, size |-> new_size,
              result |-> IF new_size > original_size THEN "True" ELSE "False"]

(* ------------------------------- delete -------------------------------- *)

\* _get_min_node that does not walk to the left
_get_min_node_no_walk(node) == node

RECURSIVE _get_min_node(_)
_get_min_node(node) ==
    IF node.left # NoNode THEN _get_min_node(node.left) ELSE node

RECURSIVE _get_max_node(_)
_get_max_node(node) ==
    IF node.right # NoNode THEN _get_max_node(node.right) ELSE node

\* _delete_recursive whose one-child case returns node.right where it should
\* return node.left
RECURSIVE _delete_recursive_wrong_child(_, _)
_delete_recursive_wrong_child(node, key) ==
    IF node = NoNode THEN [node |-> NoNode, removed |-> 0]
    ELSE IF key < node.val THEN
        LET r  == _delete_recursive_wrong_child(node.left, key)
            n1 == [node EXCEPT !.left = r.node]
            n2 == [n1 EXCEPT !.height =
                      1 + max(_get_height(n1.left), _get_height(n1.right))]
        IN  [node |-> _rebalance(n2), removed |-> r.removed]
    ELSE IF key > node.val THEN
        LET r  == _delete_recursive_wrong_child(node.right, key)
            n1 == [node EXCEPT !.right = r.node]
            n2 == [n1 EXCEPT !.height =
                      1 + max(_get_height(n1.left), _get_height(n1.right))]
        IN  [node |-> _rebalance(n2), removed |-> r.removed]
    ELSE IF node.left = NoNode THEN [node |-> node.right, removed |-> 1]
    ELSE IF node.right = NoNode THEN [node |-> node.right, removed |-> 1]
    ELSE
        LET successor == _get_min_node(node.right)
            n0 == [node EXCEPT !.val = successor.val]
            r  == _delete_recursive_wrong_child(n0.right, successor.val)
            n1 == [n0 EXCEPT !.right = r.node]
            n2 == [n1 EXCEPT !.height =
                      1 + max(_get_height(n1.left), _get_height(n1.right))]
        IN  [node |-> _rebalance(n2), removed |-> r.removed]

\* _delete_recursive whose two-child case takes the in-order predecessor
\* (the largest key of the left subtree) in place of the successor
RECURSIVE _delete_recursive_predecessor(_, _)
_delete_recursive_predecessor(node, key) ==
    IF node = NoNode THEN [node |-> NoNode, removed |-> 0]
    ELSE IF key < node.val THEN
        LET r  == _delete_recursive_predecessor(node.left, key)
            n1 == [node EXCEPT !.left = r.node]
            n2 == [n1 EXCEPT !.height =
                      1 + max(_get_height(n1.left), _get_height(n1.right))]
        IN  [node |-> _rebalance(n2), removed |-> r.removed]
    ELSE IF key > node.val THEN
        LET r  == _delete_recursive_predecessor(node.right, key)
            n1 == [node EXCEPT !.right = r.node]
            n2 == [n1 EXCEPT !.height =
                      1 + max(_get_height(n1.left), _get_height(n1.right))]
        IN  [node |-> _rebalance(n2), removed |-> r.removed]
    ELSE IF node.left = NoNode THEN [node |-> node.right, removed |-> 1]
    ELSE IF node.right = NoNode THEN [node |-> node.left, removed |-> 1]
    ELSE
        LET predecessor == _get_max_node(node.left)
            n0 == [node EXCEPT !.val = predecessor.val]
            r  == _delete_recursive_predecessor(n0.left, predecessor.val)
            n1 == [n0 EXCEPT !.left = r.node]
            n2 == [n1 EXCEPT !.height =
                      1 + max(_get_height(n1.left), _get_height(n1.right))]
        IN  [node |-> _rebalance(n2), removed |-> r.removed]

\* The result is [node, removed]: the subtree's new root and by how much
\* _size was decremented.
RECURSIVE _delete_recursive(_, _)
_delete_recursive(node, key) ==
    IF node = NoNode THEN [node |-> NoNode, removed |-> 0]
    ELSE IF key < node.val THEN
        LET r  == _delete_recursive(node.left, key)
            n1 == [node EXCEPT !.left = r.node]
            n2 == [n1 EXCEPT !.height =
                      1 + max(_get_height(n1.left), _get_height(n1.right))]
        IN  [node |-> _rebalance(n2), removed |-> r.removed]
    ELSE IF key > node.val THEN
        LET r  == _delete_recursive(node.right, key)
            n1 == [node EXCEPT !.right = r.node]
            n2 == [n1 EXCEPT !.height =
                      1 + max(_get_height(n1.left), _get_height(n1.right))]
        IN  [node |-> _rebalance(n2), removed |-> r.removed]
    ELSE IF node.left = NoNode THEN [node |-> node.right, removed |-> 1]
    ELSE IF node.right = NoNode THEN [node |-> node.left, removed |-> 1]
    ELSE
        LET successor == _get_min_node(node.right)
            n0 == [node EXCEPT !.val = successor.val]
            r  == _delete_recursive(n0.right, successor.val)
            n1 == [n0 EXCEPT !.right = r.node]
            n2 == [n1 EXCEPT !.height =
                      1 + max(_get_height(n1.left), _get_height(n1.right))]
        IN  [node |-> _rebalance(n2), removed |-> r.removed]

\* delete that unlinks the entry without taking it off _size
delete_size_not_decremented(self, key) ==
    IF _validate_key(key)
    THEN [root |-> self.root, size |-> self.size, result |-> "AVLTreeKeyError"]
    ELSE LET r == _delete_recursive(self.root, key)
         IN  [root |-> r.node, size |-> self.size,
              result |-> IF r.removed > 0 THEN "True" ELSE "False"]

\* delete that reports success when the size did not grow (<= for <)
delete_reports_le(self, key) ==
    IF _validate_key(key)
    THEN [root |-> self.root, size |-> self.size, result |-> "AVLTreeKeyError"]
    ELSE LET original_size == self.size
             r == _delete_recursive(self.root, key)
             new_size == self.size - r.removed
         IN  [root |-> r.node, size |-> new_size,
              result |-> IF new_size <= original_size THEN "True" ELSE "False"]

delete(self, key) ==
    IF _validate_key(key)
    THEN [root |-> self.root, size |-> self.size, result |-> "AVLTreeKeyError"]
    ELSE LET original_size == self.size
             r == _delete_recursive(self.root, key)
             new_size == self.size - r.removed
         IN  [root |-> r.node, size |-> new_size,
              result |-> IF new_size < original_size THEN "True" ELSE "False"]

(* --------------------------- clear, from_list -------------------------- *)

\* clear that resets _size only
clear_keeps_root(self) == [root |-> self.root, size |-> 0, result |-> "None"]

\* clear that forgets to reset _size
clear_keeps_size(self) == [root |-> NoNode, size |-> self.size, result |-> "None"]

clear(self) == [root |-> NoNode, size |-> 0, result |-> "None"]

\* the loop of from_list leaving out the last element of keys
RECURSIVE from_list_loop_drops_last(_, _, _)
from_list_loop_drops_last(self, keys, i) ==
    IF i >= Len(keys) THEN [root |-> self.root, size |-> self.size, result |-> "None"]
    ELSE LET r == insert(self, keys[i]) IN
         IF r.result \in {"True", "False"}
         THEN from_list_loop_drops_last([root |-> r.root, size |-> r.size], keys, i + 1)
         ELSE r

\* the loop "for key in keys: self.insert(key)" from element i on; the first
\* exception ends the call
RECURSIVE from_list_loop(_, _, _)
from_list_loop(self, keys, i) ==
    IF i > Len(keys) THEN [root |-> self.root, size |-> self.size, result |-> "None"]
    ELSE LET r == insert(self, keys[i]) IN
         IF r.result \in {"True", "False"}
         THEN from_list_loop([root |-> r.root, size |-> r.size], keys, i + 1)
         ELSE r

\* from_list that does not empty the index first
from_list_no_clear(self, keys) == from_list_loop(self, keys, 1)

from_list(self, keys) == from_list_loop([root |-> NoNode, size |-> 0], keys, 1)

(* ------------------------------ traversal ------------------------------ *)

\* _in_order_traversal that visits the right subtree before the left one
RECURSIVE _in_order_traversal_right_first(_, _)
_in_order_traversal_right_first(node, output) ==
    IF node # NoNode
    THEN _in_order_traversal_right_first(node.left,
             Append(_in_order_traversal_right_first(node.right, output), node.val))
    ELSE output

RECURSIVE _in_order_traversal(_, _)
_in_order_traversal(node, output) ==
    IF node # NoNode
    THEN _in_order_traversal(node.right,
             Append(_in_order_traversal(node.left, output), node.val))
    ELSE output

in_order_traversal(self) == _in_order_traversal(self.root, <<>>)

to_list(self) == in_order_traversal(self)

RECURSIVE _pre_order_traversal(_, _)
_pre_order_traversal(node, output) ==
    IF node # NoNode
    THEN _pre_order_traversal(node.right,
             _pre_order_traversal(node.left, Append(output, node.val)))
    ELSE output

pre_order_traversal(self) == _pre_order_traversal(self.root, <<>>)

\* _post_order_traversal that appends the node before its right subtree
RECURSIVE _post_order_traversal_node_before_right(_, _)
_post_order_traversal_node_before_right(node, output) ==
    IF node # NoNode
    THEN _post_order_traversal_node_before_right(node.right,
             Append(_post_order_traversal_node_before_right(node.left, output),
                    node.val))
    ELSE output

RECURSIVE _post_order_traversal(_, _)
_post_order_traversal(node, output) ==
    IF node # NoNode
    THEN Append(_post_order_traversal(node.right,
                    _post_order_traversal(node.left, output)),
                node.val)
    ELSE output

post_order_traversal(self) == _post_order_traversal(self.root, <<>>)

(* -------------------------------- lookup ------------------------------- *)

\* a descent that goes left whatever the comparison says
RECURSIVE _search_unlocked_left_only(_, _)
_search_unlocked_left_only(node, key) ==
    IF node = NoNode THEN NoNode
    ELSE IF key = node.val THEN node
    ELSE _search_unlocked_left_only(node.left, key)

\* the while loop of _search_unlocked, one call per iteration
RECURSIVE _search_unlocked(_, _)
_search_unlocked(node, key) ==
    IF node = NoNode THEN NoNode
    ELSE IF key = node.val THEN node
    ELSE IF key < node.val THEN _search_unlocked(node.left, key)
    ELSE _search_unlocked(node.right, key)

\* search: result is "returned" with the entry in node (NoNode = None), or
\* the exception raised
search(self, key) ==
    IF _validate_key(key)
    THEN [root |-> self.root, size |-> self.size, result |-> "AVLTreeKeyError",
          node |-> NoNode]
    ELSE [root |-> self.root, size |-> self.size, result |-> "returned",
          node |-> _search_unlocked(self.root, key)]

\* key in tree: no validation; on a non-empty index the comparison
\* None < current.val of the first iteration raises TypeError
__contains__(self, key) ==
    IF key = None /\ self.root # NoNode
    THEN [root |-> self.root, size |-> self.size, result |-> "TypeError"]
    ELSE [root |-> self.root, size |-> self.size,
          result |-> IF _search_unlocked(self.root, key) # NoNode
                     THEN "True" ELSE "False"]

get_min(self) ==
    IF self.root = NoNode
    THEN [root |-> self.root, size |-> self.size, value |-> None]
    ELSE [root |-> self.root, size |-> self.size,
          value |-> _get_min_node(self.root).val]

\* get_max that answers with the key at the root
get_max_root_key(self) ==
    IF self.root = NoNode
    THEN [root |-> self.root, size |-> self.size, value |-> None]
    ELSE [root |-> self.root, size |-> self.size, value |-> self.root.val]

get_max(self) ==
    IF self.root = NoNode
    THEN [root |-> self.root, size |-> self.size, value |-> None]
    ELSE [root |-> self.root, size |-> self.size,
          value |-> _get_max_node(self.root).val]

(* ------------------------------- actions ------------------------------- *)

(* ------------------------------- threads ------------------------------- *)

Threads == 1..NThreads

\* a thread with no call in progress
IdleThread ==
    [pc |-> "idle", op |-> "none", key |-> None, keys |-> <<>>, i |-> 0,
     pending |-> NoNode, result |-> "None", snapshot |-> <<>>,
     at_call |-> <<>>, consumed |-> <<>>, during |-> {}]

\* an RLock that lets every thread in
CanAcquire_never_blocks(l, t) == TRUE

\* threading.RLock: free, or already owned by the thread that asks
CanAcquire(l, t) == l.owner = 0 \/ l.owner = t

\* an RLock whose acquire does not take it
acquire_not_taken(l, t) == l

acquire(l, t) == [owner |-> t, count |-> l.count + 1]

\* an RLock whose release leaves it with its owner
release_keeps_owner(l) == [owner |-> l.owner, count |-> 0]

release(l) ==
    IF l.count = 1 THEN [owner |-> 0, count |-> 0]
    ELSE [owner |-> l.owner, count |-> l.count - 1]

\* What self.root designates after the right-hand side of
\* "self.root = self._insert_recursive(self.root, key, 0)" has run and before
\* the assignment: the object that was the root, with the links and the
\* height the recursion gave it in place.
RECURSIVE EntryWithKey(_, _)
EntryWithKey(node, key) ==
    IF node = NoNode THEN NoNode
    ELSE IF node.val = key THEN node
    ELSE IF EntryWithKey(node.left, key) # NoNode THEN EntryWithKey(node.left, key)
    ELSE EntryWithKey(node.right, key)

root_during_insert(old_root, new_root) ==
    IF old_root = NoNode THEN NoNode ELSE EntryWithKey(new_root, old_root.val)

(* ------------------------------ self-check ----------------------------- *)

\* _validate_avl that compares an entry with its own children only
RECURSIVE _validate_avl_children_only(_, _, _)
_validate_avl_children_only(node, min_val, max_val) ==
    IF node = NoNode THEN TRUE
    ELSE IF (node.left # NoNode /\ node.left.val >= node.val)
            \/ (node.right # NoNode /\ node.right.val <= node.val)
    THEN FALSE
    ELSE LET balance == _get_balance_factor(node)
             expected_height == 1 + max(_get_height(node.left), _get_height(node.right))
         IN  IF balance > 1 \/ balance < -1 THEN FALSE
             ELSE IF node.height # expected_height THEN FALSE
             ELSE /\ _validate_avl_children_only(node.left, min_val, <<node.val>>)
                  /\ _validate_avl_children_only(node.right, <<node.val>>, max_val)

\* min_val and max_val are <<>> for float('-inf') / float('inf') and <<v>>
\* for the bound v
RECURSIVE _validate_avl(_, _, _)
_validate_avl(node, min_val, max_val) ==
    IF node = NoNode THEN TRUE
    ELSE IF (min_val # <<>> /\ node.val <= min_val[1])
            \/ (max_val # <<>> /\ node.val >= max_val[1])
    THEN FALSE
    ELSE LET balance == _get_balance_factor(node)
             expected_height == 1 + max(_get_height(node.left), _get_height(node.right))
         IN  IF balance > 1 \/ balance < -1 THEN FALSE
             ELSE IF node.height # expected_height THEN FALSE
             ELSE /\ _validate_avl(node.left, min_val, <<node.val>>)
                  /\ _validate_avl(node.right, <<node.val>>, max_val)

is_valid_avl(self) == _validate_avl(self.root, <<>>, <<>>)

\* the tree with the entry that search(key) finds replaced by new
RECURSIVE WithEntry(_, _, _)
WithEntry(node, key, new) ==
    IF node = NoNode THEN NoNode
    ELSE IF key = node.val THEN new
    ELSE IF key < node.val
    THEN [node EXCEPT !.left = WithEntry(node.left, key, new)]
    ELSE [node EXCEPT !.right = WithEntry(node.right, key, new)]

(* ------------------------------- history ------------------------------- *)

\* hist is kept for the properties only; the index does not read it.
\* track "sets": the keys ever inserted, ever deleted, and those whose latest
\* successful call was an insert.  track "log": the keys of the successful
\* inserts in order, and the number of rotations made so far.
NoHistory ==
    [track |-> "off", ever_inserted |-> {}, ever_deleted |-> {}, live |-> {},
     log |-> <<>>, rotations |-> 0]

\* the number of rotations _rebalance makes on node: the double cases make
\* two
RotationsAt(node) ==
    LET balance == _get_balance_factor(node) IN
    IF balance > 1
    THEN IF _get_balance_factor(node.left) >= 0 THEN 1 ELSE 2
    ELSE IF balance < -1
    THEN IF _get_balance_factor(node.right) <= 0 THEN 1 ELSE 2
    ELSE 0

\* the number of rotations made by _insert_recursive(node, key, ...) on its
\* way back up
RECURSIVE RotationsOnInsert(_, _)
RotationsOnInsert(node, key) ==
    IF node = NoNode THEN 0
    ELSE IF key < node.val THEN
        LET n1 == [node EXCEPT !.left = _insert_recursive(node.left, key, 0).node]
            n2 == [n1 EXCEPT !.height =
                      1 + max(_get_height(n1.left), _get_height(n1.right))]
        IN  RotationsOnInsert(node.left, key) + RotationsAt(n2)
    ELSE IF key > node.val THEN
        LET n1 == [node EXCEPT !.right = _insert_recursive(node.right, key, 0).node]
            n2 == [n1 EXCEPT !.height =
                      1 + max(_get_height(n1.left), _get_height(n1.right))]
        IN  RotationsOnInsert(node.right, key) + RotationsAt(n2)
    ELSE 0

HistoryAfterInsert(h, self, key, result) ==
    IF result # "True" THEN h
    ELSE IF h.track = "sets"
    THEN [h EXCEPT !.ever_inserted = @ \cup {key}, !.live = @ \cup {key}]
    ELSE IF h.track = "log"
    THEN [h EXCEPT !.log = Append(@, key),
                   !.rotations = @ + RotationsOnInsert(self.root, key)]
    ELSE h

HistoryAfterDelete(h, key, result) ==
    IF result = "True" /\ h.track = "sets"
    THEN [h EXCEPT !.ever_deleted = @ \cup {key}, !.live = @ \ {key}]
    ELSE h

(* -------------------------------- state -------------------------------- *)

Self == [root |-> root, size |-> size]

Init ==
    /\ root = NoNode
    /\ size = 0
    /\ max_size \in MaxSizes
    /\ max_depth \in MaxDepths
    /\ lastOp = "init"
    /\ lastKey = None
    /\ lastKeys = <<>>
    /\ lastResult = "None"
    /\ prev = [root |-> NoNode, size |-> 0]
    /\ insertOnly = TRUE
    /\ inserted = {}
    /\ lastNode = NoNode
    /\ lastValue = None
    /\ lock = [owner |-> 0, count |-> 0]
    /\ thr = [t \in Threads |-> IdleThread]
    /\ hist = NoHistory
    /\ candidates = <<>>

Insert(key) ==
    LET r == insert(Self, key) IN
    /\ root' = r.root
    /\ size' = r.size
    /\ lastOp' = "insert"
    /\ lastKey' = key
    /\ lastKeys' = <<>>
    /\ lastResult' = r.result
    /\ prev' = Self
    /\ UNCHANGED <<lock, thr, candidates>>
    /\ hist' = HistoryAfterInsert(hist, Self, key, r.result)
    /\ lastNode' = NoNode
    /\ lastValue' = None
    /\ inserted' = IF insertOnly /\ r.result = "True" THEN inserted \cup {key} ELSE inserted
    /\ UNCHANGED <<max_size, max_depth, insertOnly>>

Delete(key) ==
    LET r == delete(Self, key) IN
    /\ root' = r.root
    /\ size' = r.size
    /\ lastOp' = "delete"
    /\ lastKey' = key
    /\ lastKeys' = <<>>
    /\ lastResult' = r.result
    /\ prev' = Self
    /\ UNCHANGED <<lock, thr, candidates>>
    /\ hist' = HistoryAfterDelete(hist, key, r.result)
    /\ lastNode' = NoNode
    /\ lastValue' = None
    /\ insertOnly' = FALSE
    /\ inserted' = {}
    /\ UNCHANGED <<max_size, max_depth>>

Clear ==
    LET r == clear(Self) IN
    /\ root' = r.root
    /\ size' = r.size
    /\ lastOp' = "clear"
    /\ lastKey' = None
    /\ lastKeys' = <<>>
    /\ lastResult' = r.result
    /\ prev' = Self
    /\ UNCHANGED <<lock, thr, hist, candidates>>
    /\ lastNode' = NoNode
    /\ lastValue' = None
    /\ insertOnly' = FALSE
    /\ inserted' = {}
    /\ UNCHANGED <<max_size, max_depth>>

FromList(keys) ==
    LET r == from_list(Self, keys) IN
    /\ root' = r.root
    /\ size' = r.size
    /\ lastOp' = "from_list"
    /\ lastKey' = None
    /\ lastKeys' = keys
    /\ lastResult' = r.result
    /\ prev' = Self
    /\ UNCHANGED <<lock, thr, hist, candidates>>
    /\ lastNode' = NoNode
    /\ lastValue' = None
    /\ insertOnly' = FALSE
    /\ inserted' = {}
    /\ UNCHANGED <<max_size, max_depth>>

\* data = tree.to_list(); tree.from_list(data)
RoundTrip ==
    LET data == to_list(Self)
        r == from_list(Self, data)
    IN  /\ root' = r.root
        /\ size' = r.size
        /\ lastOp' = "round_trip"
        /\ lastKey' = None
        /\ lastKeys' = data
        /\ lastResult' = r.result
        /\ prev' = Self
        /\ UNCHANGED <<lock, thr, hist, candidates>>
        /\ lastNode' = NoNode
        /\ lastValue' = None
        /\ insertOnly' = FALSE
        /\ inserted' = {}
        /\ UNCHANGED <<max_size, max_depth>>

Search(key) ==
    LET r == search(Self, key) IN
    /\ root' = r.root
    /\ size' = r.size
    /\ lastOp' = "search"
    /\ lastKey' = key
    /\ lastKeys' = <<>>
    /\ lastResult' = r.result
    /\ prev' = Self
    /\ UNCHANGED <<lock, thr, hist, candidates>>
    /\ lastNode' = r.node
    /\ lastValue' = None
    /\ UNCHANGED <<max_size, max_depth, insertOnly, inserted>>

Contains(key) ==
    LET r == __contains__(Self, key) IN
    /\ root' = r.root
    /\ size' = r.size
    /\ lastOp' = "contains"
    /\ lastKey' = key
    /\ lastKeys' = <<>>
    /\ lastResult' = r.result
    /\ prev' = Self
    /\ UNCHANGED <<lock, thr, hist, candidates>>
    /\ lastNode' = NoNode
    /\ lastValue' = None
    /\ UNCHANGED <<max_size, max_depth, insertOnly, inserted>>

\* the three traversals; which names the method, the list returned is kept
\* in lastKeys
Traverse(which) ==
    LET result == CASE which = "in_order_traversal" -> in_order_traversal(Self)
                    [] which = "pre_order_traversal" -> pre_order_traversal(Self)
                    [] which = "post_order_traversal" -> post_order_traversal(Self)
    IN  /\ lastOp' = which
        /\ lastKey' = None
        /\ lastKeys' = result
        /\ lastResult' = "returned"
        /\ prev' = Self
        /\ UNCHANGED <<lock, thr, hist, candidates>>
        /\ lastNode' = NoNode
        /\ lastValue' = None
        /\ UNCHANGED <<root, size, max_size, max_depth, insertOnly, inserted>>

GetMin ==
    LET r == get_min(Self) IN
    /\ root' = r.root
    /\ size' = r.size
    /\ lastOp' = "get_min"
    /\ lastKey' = None
    /\ lastKeys' = <<>>
    /\ lastResult' = "returned"
    /\ prev' = Self
    /\ UNCHANGED <<lock, thr, hist, candidates>>
    /\ lastNode' = NoNode
    /\ lastValue' = r.value
    /\ UNCHANGED <<max_size, max_depth, insertOnly, inserted>>

GetMax ==
    LET r == get_max(Self) IN
    /\ root' = r.root
    /\ size' = r.size
    /\ lastOp' = "get_max"
    /\ lastKey' = None
    /\ lastKeys' = <<>>
    /\ lastResult' = "returned"
    /\ prev' = Self
    /\ UNCHANGED <<lock, thr, hist, candidates>>
    /\ lastNode' = NoNode
    /\ lastValue' = r.value
    /\ UNCHANGED <<max_size, max_depth, insertOnly, inserted>>

Next ==
    \/ \E key \in KeyArgs : Insert(key)
    \/ \E key \in KeyArgs : Delete(key)
    \/ Clear
    \/ \E keys \in KeyLists : FromList(keys)
    \/ RoundTrip

Spec == Init /\ [][Next]_vars

\* the index with its read operations: one client calling insert, delete,
\* clear, search, in, get_min and get_max
NextReads ==
    \/ \E key \in KeyArgs : Insert(key)
    \/ \E key \in KeyArgs : Delete(key)
    \/ Clear
    \/ \E key \in KeyArgs : Search(key)
    \/ \E key \in KeyArgs : Contains(key)
    \/ GetMin
    \/ GetMax
    \/ \E which \in {"in_order_traversal", "pre_order_traversal",
                     "post_order_traversal"} : Traverse(which)

SpecReads == Init /\ [][NextReads]_vars

\* the lists handed to from_list by the bulk-load client
BulkLists == UNION {[1..n -> KeyArgs] : n \in 0..(MaxLen + 1)}

\* a client that fills the index by inserts and then loads a list into it,
\* once
NextBulk ==
    \/ lastOp # "from_list" /\ \E key \in Keys : Insert(key)
    \/ lastOp # "from_list" /\ \E keys \in BulkLists : FromList(keys)

SpecBulk == Init /\ [][NextBulk]_vars

(* ---------------------- vocabulary of the properties ------------------- *)

\* the entries of a tree, each given as the subtree it roots
RECURSIVE Subtrees(_)
Subtrees(node) ==
    IF node = NoNode THEN {}
    ELSE {node} \cup Subtrees(node.left) \cup Subtrees(node.right)

\* the number of entries reachable from a node
RECURSIVE NodeCount(_)
NodeCount(node) ==
    IF node = NoNode THEN 0 ELSE 1 + NodeCount(node.left) + NodeCount(node.right)

\* the height of a tree computed from its links alone
RECURSIVE LinkHeight(_)
LinkHeight(node) ==
    IF node = NoNode THEN 0
    ELSE 1 + max(LinkHeight(node.left), LinkHeight(node.right))

KeysOf(node) == {n.val : n \in Subtrees(node)}

\* the ascending sequence of a finite set of integers
RECURSIVE SortedSeq(_)
SortedSeq(S) ==
    IF S = {} THEN <<>>
    ELSE LET m == CHOOSE x \in S : \A y \in S : x <= y
         IN  <<m>> \o SortedSeq(S \ {m})

Abs(x) == IF x < 0 THEN -x ELSE x

IsBalanced(node) ==
    \A n \in Subtrees(node) :
        /\ Abs(_get_height(n.left) - _get_height(n.right)) <= 1
        /\ n.height = 1 + max(_get_height(n.left), _get_height(n.right))
        /\ n.height = LinkHeight(n)

IsStrictBST(node) ==
    /\ \A n \in Subtrees(node) :
          /\ \A k \in KeysOf(n.left) : k < n.val
          /\ \A k \in KeysOf(n.right) : k > n.val
    /\ NodeCount(node) = Cardinality(KeysOf(node))

\* what a client gets that calls clear() and then insert(keys[1]), ...,
\* insert(keys[n]) in a row: the state and outcome after the n-th call, or
\* those of the first call that raised
RECURSIVE ClearThenInsertEach(_, _, _)
ClearThenInsertEach(self, keys, n) ==
    IF n = 0 THEN clear(self)
    ELSE LET before == ClearThenInsertEach(self, keys, n - 1) IN
         IF before.result \in {"AVLTreeKeyError", "AVLTreeCapacityError",
                               "AVLTreeDepthError"}
         THEN before
         ELSE insert([root |-> before.root, size |-> before.size], keys[n])

Errors == {"AVLTreeKeyError", "AVLTreeCapacityError", "AVLTreeDepthError"}

\* the entry of prev that holds the key of the last call (when there is one)
PrevEntry == CHOOSE n \in Subtrees(prev.root) : n.val = lastKey

\* the visiting orders, written with concatenation
RECURSIVE PreOrder(_)
PreOrder(node) ==
    IF node = NoNode THEN <<>>
    ELSE <<node.val>> \o PreOrder(node.left) \o PreOrder(node.right)

RECURSIVE PostOrder(_)
PostOrder(node) ==
    IF node = NoNode THEN <<>>
    ELSE PostOrder(node.left) \o PostOrder(node.right) \o <<node.val>>

Range(s) == {s[j] : j \in DOMAIN s}

(* ---------------------------- further clients -------------------------- *)

\* the part of the initial state that says no call has been made
NoCallYet ==
    /\ lastOp = "init"
    /\ lastKey = None
    /\ lastKeys = <<>>
    /\ lastResult = "None"
    /\ prev = [root |-> NoNode, size |-> 0]
    /\ insertOnly = TRUE
    /\ inserted = {}
    /\ lastValue = None
    /\ lock = [owner |-> 0, count |-> 0]
    /\ thr = [t \in Threads |-> IdleThread]
    /\ candidates = <<>>

\* a client that calls insert and delete, with the history of its
\* successful calls kept
InitHistory ==
    /\ root = NoNode
    /\ size = 0
    /\ max_size \in {None, MaxSizeCfg}
    /\ max_depth = DefaultMaxDepth
    /\ lastNode = NoNode
    /\ hist = [NoHistory EXCEPT !.track = "sets"]
    /\ NoCallYet

NextHistory ==
    \/ \E key \in KeyArgs : Insert(key)
    \/ \E key \in KeyArgs : Delete(key)

SpecHistory == InitHistory /\ [][NextHistory]_vars

\* a client that inserts keys of 1..MaxAscending, each once, into a new index
\* without limits, with the log of its successful inserts and the number of
\* rotations kept
InitAscending ==
    /\ root = NoNode
    /\ size = 0
    /\ max_size = None
    /\ max_depth = DefaultMaxDepth
    /\ lastNode = NoNode
    /\ hist = [NoHistory EXCEPT !.track = "log"]
    /\ NoCallYet

NextAscending == \E key \in (1..MaxAscending) \ Range(hist.log) : Insert(key)

SpecAscending == InitAscending /\ [][NextAscending]_vars

\* an entry with the given key and subtrees and the cached height they imply
Entry(key, left, right) ==
    [val |-> key, left |-> left, right |-> right,
     height |-> 1 + max(_get_height(left), _get_height(right))]

\* the valid AVL trees whose keys lie in lo..hi
RECURSIVE AVLTreesOn(_, _)
AVLTreesOn(lo, hi) ==
    {NoNode} \cup
    UNION {{Entry(k, l, r) : <<l, r>> \in
                {p \in AVLTreesOn(lo, k - 1) \X AVLTreesOn(k + 1, hi) :
                    Abs(_get_height(p[1]) - _get_height(p[2])) <= 1}} :
           k \in lo..hi}

\* the arguments of _rebalance: an entry over valid AVL subtrees, correctly
\* ordered, with a correct cached height and a balance factor in -2..2
RebalanceInputs ==
    UNION {{Entry(k, l, r) : <<l, r>> \in
                {p \in AVLTreesOn(1, k - 1) \X AVLTreesOn(k + 1, MaxKey + 1) :
                    Abs(_get_height(p[1]) - _get_height(p[2])) <= 2}} :
           k \in 1..(MaxKey + 1)}

\* _rebalance applied to one of its possible arguments, held in lastNode;
\* the index itself is not involved
InitRebalance ==
    /\ root = NoNode
    /\ size = 0
    /\ max_size = None
    /\ max_depth = DefaultMaxDepth
    /\ lastNode \in RebalanceInputs
    /\ hist = NoHistory
    /\ NoCallYet

Rebalance ==
    /\ lastOp = "init"
    /\ lastOp' = "_rebalance"
    /\ lastNode' = _rebalance(lastNode)
    /\ prev' = [root |-> lastNode, size |-> NodeCount(lastNode)]
    /\ UNCHANGED <<root, size, max_size, max_depth, lastKey, lastKeys,
                   lastResult, insertOnly, inserted, lastValue, lock, thr,
                   hist, candidates>>

NextRebalance == Rebalance

SpecRebalance == InitRebalance /\ [][NextRebalance]_vars

\* one rotation applied to an entry that has the child the rotation lifts;
\* the entry is held in lastNode and the index itself is not involved
Rotate(which) ==
    /\ lastOp = "init"
    /\ IF which = "_rotate_left" THEN lastNode.right # NoNode
                                 ELSE lastNode.left # NoNode
    /\ lastOp' = which
    /\ lastNode' = IF which = "_rotate_left" THEN _rotate_left(lastNode)
                                             ELSE _rotate_right(lastNode)
    /\ prev' = [root |-> lastNode, size |-> NodeCount(lastNode)]
    /\ UNCHANGED <<root, size, max_size, max_depth, lastKey, lastKeys,
                   lastResult, insertOnly, inserted, lastValue, lock, thr,
                   hist, candidates>>

NextRotate == \E which \in {"_rotate_left", "_rotate_right"} : Rotate(which)

SpecRotate == InitRebalance /\ [][NextRotate]_vars

\* an index without limits that holds any valid AVL tree over the keys
\* 1..MaxKey+1, on which one delete is called
InitPopulated ==
    /\ root \in AVLTreesOn(1, MaxKey + 1)
    /\ size = NodeCount(root)
    /\ max_size = None
    /\ max_depth = DefaultMaxDepth
    /\ lastNode = NoNode
    /\ hist = NoHistory
    /\ NoCallYet

NextDeleteOnce == lastOp = "init" /\ \E key \in 1..(MaxKey + 1) : Delete(key)

SpecDeleteOnce == InitPopulated /\ [][NextDeleteOnce]_vars

\* the orderings of the sets of distinct keys
OrderLists ==
    {keys \in UNION {[1..n -> Keys] : n \in 0..MaxKey} :
        \A i, j \in DOMAIN keys : i # j => keys[i] # keys[j]}

\* a client that loads an ordering into a new index without limits and
\* then loads another ordering of the same keys
InitOrder ==
    /\ Init
    /\ max_size = None
    /\ max_depth = DefaultMaxDepth

NextOrder ==
    \/ lastOp = "init" /\ \E keys \in OrderLists : FromList(keys)
    \/ /\ lastOp = "from_list"
       /\ prev.root = NoNode
       /\ \E keys \in OrderLists :
             /\ Range(keys) = KeysOf(root)
             /\ FromList(keys)

SpecOrder == InitOrder /\ [][NextOrder]_vars

\* is_valid_avl()
IsValidAvl ==
    /\ lastOp' = "is_valid_avl"
    /\ lastKey' = None
    /\ lastKeys' = <<>>
    /\ lastResult' = IF is_valid_avl(Self) THEN "True" ELSE "False"
    /\ prev' = Self
    /\ lastNode' = NoNode
    /\ lastValue' = None
    /\ UNCHANGED <<root, size, max_size, max_depth, insertOnly, inserted, lock,
                   thr, hist, candidates>>

\* The caller assigns an attribute of the entry that search(key) returned:
\* n = tree.search(key); n.val = value, n.height = value, n.left = None or
\* n.right = None.
Tamper(key, field, value) ==
    LET n == search(Self, key).node
        changed == CASE field = "val" -> [n EXCEPT !.val = value]
                     [] field = "height" -> [n EXCEPT !.height = value]
                     [] field = "left" -> [n EXCEPT !.left = NoNode]
                     [] field = "right" -> [n EXCEPT !.right = NoNode]
    IN  /\ n # NoNode
        /\ root' = WithEntry(root, key, changed)
        /\ lastOp' = "tamper"
        /\ lastKey' = key
        /\ lastKeys' = <<>>
        /\ lastResult' = field
        /\ prev' = Self
        /\ lastNode' = NoNode
        /\ lastValue' = value
        /\ insertOnly' = FALSE
        /\ inserted' = {}
        /\ UNCHANGED <<size, max_size, max_depth, lock, thr, hist, candidates>>

\* a client that fills an index without limits by inserts, may then assign
\* one attribute of one entry, and calls is_valid_avl()
NextValidate ==
    \/ insertOnly /\ \E key \in Keys : Insert(key)
    \/ insertOnly /\ \E key \in Keys, field \in {"val", "height", "left", "right"},
                        value \in 0..MaxKey : Tamper(key, field, value)
    \/ IsValidAvl

SpecValidate == InitOrder /\ [][NextValidate]_vars

(* --------------------------- candidate tracker ------------------------- *)

\* The tracker keeps its candidates in the dictionary _candidates (here the
\* function candidates from ids to overall scores) and their composite keys
\* (overall_score, candidate_id) in _score_tree (here root and size, with
\* max_size = max_candidates).  Candidates are added with an empty
\* domain_scores, so the domain trees stay empty.

CandidateIds == 1..(MaxSizeCfg + 1)

Scores == 0..MaxScore

\* the tuple (score, id); tuples compare by score first, then by id
CompositeKey(score, candidate_id) == score * (MaxSizeCfg + 2) + candidate_id

IdOf(key) == key % (MaxSizeCfg + 2)

\* list.reverse()
reverse(s) == [i \in 1..Len(s) |-> s[Len(s) + 1 - i]]

\* add_candidate: returns [candidates, root, size, result]
add_candidate(cands, self, candidate_id, overall_score) ==
    IF candidate_id \in DOMAIN cands
    THEN [candidates |-> cands, root |-> self.root, size |-> self.size,
          result |-> "ValueError"]
    ELSE LET stored == [c \in DOMAIN cands \cup {candidate_id} |->
                           IF c = candidate_id THEN overall_score ELSE cands[c]]
             r == insert(self, CompositeKey(overall_score, candidate_id))
         IN  [candidates |-> stored, root |-> r.root, size |-> r.size,
              result |-> IF r.result \in {"True", "False"} THEN "returned"
                         ELSE r.result]

\* remove_candidate
remove_candidate(cands, self, candidate_id) ==
    IF candidate_id \notin DOMAIN cands
    THEN [candidates |-> cands, root |-> self.root, size |-> self.size,
          result |-> "False"]
    ELSE LET r == delete(self, CompositeKey(cands[candidate_id], candidate_id))
         IN  [candidates |-> [c \in DOMAIN cands \ {candidate_id} |-> cands[c]],
              root |-> r.root, size |-> r.size, result |-> "True"]

\* get_rank: the 1-based position in the reversed export, None if the id is
\* not in _candidates or not met in the export
get_rank(cands, self, candidate_id) ==
    IF candidate_id \notin DOMAIN cands THEN None
    ELSE LET all_scores == reverse(in_order_traversal(self))
             found == {i \in 1..Len(all_scores) : IdOf(all_scores[i]) = candidate_id}
         IN  IF found = {} THEN None
             ELSE CHOOSE i \in found : \A j \in found : i <= j

AddCandidate(candidate_id, overall_score) ==
    LET r == add_candidate(candidates, Self, candidate_id, overall_score) IN
    /\ candidates' = r.candidates
    /\ root' = r.root
    /\ size' = r.size
    /\ lastOp' = "add_candidate"
    /\ lastKey' = candidate_id
    /\ lastKeys' = <<>>
    /\ lastResult' = r.result
    /\ prev' = Self
    /\ lastNode' = NoNode
    /\ lastValue' = overall_score
    /\ UNCHANGED <<max_size, max_depth, insertOnly, inserted, lock, thr, hist>>

RemoveCandidate(candidate_id) ==
    LET r == remove_candidate(candidates, Self, candidate_id) IN
    /\ candidates' = r.candidates
    /\ root' = r.root
    /\ size' = r.size
    /\ lastOp' = "remove_candidate"
    /\ lastKey' = candidate_id
    /\ lastKeys' = <<>>
    /\ lastResult' = r.result
    /\ prev' = Self
    /\ lastNode' = NoNode
    /\ lastValue' = None
    /\ UNCHANGED <<max_size, max_depth, insertOnly, inserted, lock, thr, hist>>

GetRank(candidate_id) ==
    /\ lastOp' = "get_rank"
    /\ lastKey' = candidate_id
    /\ lastKeys' = <<>>
    /\ lastResult' = "returned"
    /\ prev' = Self
    /\ lastNode' = NoNode
    /\ lastValue' = get_rank(candidates, Self, candidate_id)
    /\ UNCHANGED <<root, size, max_size, max_depth, insertOnly, inserted, lock,
                   thr, hist, candidates>>

\* CandidateScoreTracker(max_candidates=MaxSizeCfg)
InitTracker ==
    /\ Init
    /\ max_size = MaxSizeCfg
    /\ max_depth = DefaultMaxDepth

NextTracker ==
    \/ \E candidate_id \in CandidateIds, overall_score \in Scores :
          AddCandidate(candidate_id, overall_score)
    \/ \E candidate_id \in CandidateIds : RemoveCandidate(candidate_id)
    \/ \E candidate_id \in CandidateIds : GetRank(candidate_id)

SpecTracker == InitTracker /\ [][NextTracker]_vars

(* -------------------------- concurrent clients ------------------------- *)

\* Each call of a thread is taken in steps: the call itself (what runs
\* before "with self._lock"), the entry into the critical section together
\* with the body up to the last assignment, and that assignment together
\* with the release of the lock.

\* thread record th calls insert(key): _validate_key runs before the lock is
\* asked for
StartInsert(th, key) ==
    IF _validate_key(key)
    THEN [IdleThread EXCEPT !.result = "AVLTreeKeyError"]
    ELSE [th EXCEPT !.pc = "acquire", !.op = "insert", !.key = key]

\* thread record th after its insert ended with outcome; inside from_list
\* (th.keys is the list, th.i the position) the loop goes on to the next key
AfterInsert(th, outcome) ==
    IF th.keys = <<>> \/ outcome \in {"AVLTreeKeyError", "AVLTreeCapacityError",
                                      "AVLTreeDepthError"}
    THEN [IdleThread EXCEPT !.result = outcome]
    ELSE IF th.i = Len(th.keys)
    THEN [IdleThread EXCEPT !.result = "None"]
    ELSE StartInsert([th EXCEPT !.i = th.i + 1], th.keys[th.i + 1])

ThreadCallInsert(t, key) ==
    /\ thr[t].pc = "idle"
    /\ thr' = [thr EXCEPT ![t] = StartInsert(IdleThread, key)]
    /\ UNCHANGED <<root, size, max_size, max_depth, lastOp, lastKey, lastKeys,
                   lastResult, prev, insertOnly, inserted, lastNode, lastValue,
                   lock, hist, candidates>>

\* with self._lock: the capacity and height tests, then the right-hand side
\* of self.root = self._insert_recursive(...), which links the new entry,
\* counts it in _size and rebalances in place
ThreadEnterInsert(t) ==
    /\ thr[t].pc = "acquire"
    /\ thr[t].op = "insert"
    /\ CanAcquire(lock, t)
    /\ LET r == insert(Self, thr[t].key) IN
       IF r.result \in {"AVLTreeCapacityError", "AVLTreeDepthError"}
       THEN /\ thr' = [thr EXCEPT ![t] = AfterInsert(thr[t], r.result)]
            /\ UNCHANGED <<root, size, lock>>
       ELSE /\ lock' = acquire(lock, t)
            /\ size' = r.size
            /\ root' = root_during_insert(root, r.root)
            /\ thr' = [thr EXCEPT ![t] = [thr[t] EXCEPT !.pc = "held",
                                                         !.pending = r.root,
                                                         !.result = r.result]]
    /\ UNCHANGED <<max_size, max_depth, lastOp, lastKey, lastKeys, lastResult,
                   prev, insertOnly, inserted, lastNode, lastValue,
                   hist, candidates>>

\* the assignment to self.root, the return value and the end of the with
\* block
ThreadExitInsert(t) ==
    /\ thr[t].pc = "held"
    /\ thr[t].op = "insert"
    /\ root' = thr[t].pending
    /\ lock' = release(lock)
    /\ thr' = [thr EXCEPT ![t] = AfterInsert(thr[t], thr[t].result)]
    /\ inserted' = IF insertOnly /\ thr[t].result = "True"
                   THEN inserted \cup {thr[t].key} ELSE inserted
    /\ UNCHANGED <<size, max_size, max_depth, lastOp, lastKey, lastKeys,
                   lastResult, prev, insertOnly, lastNode, lastValue,
                   hist, candidates>>

\* What self.root designates after the right-hand side of
\* "self.root = self._delete_recursive(self.root, key)" has run and before
\* the assignment.  A root that is unlinked (it has the key and at most one
\* child) is left as it was; a root that has the key and two children takes
\* its successor's key and stays in the tree; any other root keeps its key.
root_during_delete(old_root, key, new_root) ==
    IF old_root = NoNode THEN NoNode
    ELSE IF key = old_root.val
    THEN IF old_root.left = NoNode \/ old_root.right = NoNode
         THEN old_root
         ELSE EntryWithKey(new_root, _get_min_node(old_root.right).val)
    ELSE EntryWithKey(new_root, old_root.val)

ThreadCallDelete(t, key) ==
    /\ thr[t].pc = "idle"
    /\ thr' = [thr EXCEPT ![t] =
                 IF _validate_key(key)
                 THEN [IdleThread EXCEPT !.result = "AVLTreeKeyError"]
                 ELSE [IdleThread EXCEPT !.pc = "acquire", !.op = "delete",
                                         !.key = key]]
    /\ UNCHANGED <<root, size, max_size, max_depth, lastOp, lastKey, lastKeys,
                   lastResult, prev, insertOnly, inserted, lastNode, lastValue,
                   lock, hist, candidates>>

\* with self._lock: the right-hand side of
\* self.root = self._delete_recursive(...), which unlinks the entry, takes
\* it off _size and rebalances in place
ThreadEnterDelete(t) ==
    /\ thr[t].pc = "acquire"
    /\ thr[t].op = "delete"
    /\ CanAcquire(lock, t)
    /\ LET r == delete(Self, thr[t].key) IN
       /\ lock' = acquire(lock, t)
       /\ size' = r.size
       /\ root' = root_during_delete(root, thr[t].key, r.root)
       /\ thr' = [thr EXCEPT ![t] = [thr[t] EXCEPT !.pc = "held",
                                                    !.pending = r.root,
                                                    !.result = r.result]]
    /\ UNCHANGED <<max_size, max_depth, lastOp, lastKey, lastKeys, lastResult,
                   prev, insertOnly, inserted, lastNode, lastValue,
                   hist, candidates>>

ThreadExitDelete(t) ==
    /\ thr[t].pc = "held"
    /\ thr[t].op = "delete"
    /\ root' = thr[t].pending
    /\ lock' = release(lock)
    /\ thr' = [thr EXCEPT ![t] = [IdleThread EXCEPT !.result = thr[t].result]]
    /\ insertOnly' = FALSE
    /\ inserted' = {}
    /\ UNCHANGED <<size, max_size, max_depth, lastOp, lastKey, lastKeys,
                   lastResult, prev, lastNode, lastValue,
                   hist, candidates>>

\* clear: with self._lock: self.root = None
ThreadEnterClear(t) ==
    /\ thr[t].pc = "idle"
    /\ CanAcquire(lock, t)
    /\ lock' = acquire(lock, t)
    /\ root' = NoNode
    /\ thr' = [thr EXCEPT ![t] = [IdleThread EXCEPT !.pc = "held", !.op = "clear"]]
    /\ UNCHANGED <<size, max_size, max_depth, lastOp, lastKey, lastKeys,
                   lastResult, prev, insertOnly, inserted, lastNode, lastValue,
                   hist, candidates>>

\* clear: self._size = 0 and the end of the with block
ThreadExitClear(t) ==
    /\ thr[t].pc = "held"
    /\ thr[t].op = "clear"
    /\ size' = 0
    /\ lock' = release(lock)
    /\ thr' = [thr EXCEPT ![t] = IdleThread]
    /\ insertOnly' = FALSE
    /\ inserted' = {}
    /\ UNCHANGED <<root, max_size, max_depth, lastOp, lastKey, lastKeys,
                   lastResult, prev, lastNode, lastValue,
                   hist, candidates>>

\* the keys the concurrent clients use
ThreadKeys == 1..(MaxKey - 1)

\* threads that call insert, delete and clear on one index
InitThreads ==
    /\ Init
    /\ max_size \in {None, MaxSizeCfg}
    /\ max_depth = DefaultMaxDepth

NextThreads ==
    \E t \in Threads :
        \/ \E key \in ThreadKeys : ThreadCallInsert(t, key)
        \/ ThreadEnterInsert(t)
        \/ ThreadExitInsert(t)
        \/ \E key \in ThreadKeys : ThreadCallDelete(t, key)
        \/ ThreadEnterDelete(t)
        \/ ThreadExitDelete(t)
        \/ ThreadEnterClear(t)
        \/ ThreadExitClear(t)

SpecThreads == InitThreads /\ [][NextThreads]_vars

\* insert taken in finer steps: with self._lock and the capacity and height
\* tests, ...
ThreadTestInsert(t) ==
    /\ thr[t].pc = "acquire"
    /\ thr[t].op = "insert"
    /\ CanAcquire(lock, t)
    /\ IF max_size # None /\ size >= max_size
       THEN /\ thr' = [thr EXCEPT ![t] = AfterInsert(thr[t], "AVLTreeCapacityError")]
            /\ UNCHANGED lock
       ELSE IF _get_height(root) >= max_depth
       THEN /\ thr' = [thr EXCEPT ![t] = AfterInsert(thr[t], "AVLTreeDepthError")]
            /\ UNCHANGED lock
       ELSE /\ lock' = acquire(lock, t)
            /\ thr' = [thr EXCEPT ![t] = [thr[t] EXCEPT !.pc = "tested"]]
    /\ UNCHANGED <<root, size, max_size, max_depth, lastOp, lastKey, lastKeys,
                   lastResult, prev, insertOnly, inserted, lastNode, lastValue,
                   hist, candidates>>

\* ... then the right-hand side of self.root = self._insert_recursive(...),
\* which creates the entry and counts it in _size
ThreadBodyInsert(t) ==
    /\ thr[t].pc = "tested"
    /\ LET r == insert_body(Self, thr[t].key) IN
       /\ size' = r.size
       /\ root' = root_during_insert(root, r.root)
       /\ thr' = [thr EXCEPT ![t] = [thr[t] EXCEPT !.pc = "held",
                                                    !.pending = r.root,
                                                    !.result = r.result]]
    /\ UNCHANGED <<max_size, max_depth, lastOp, lastKey, lastKeys, lastResult,
                   prev, insertOnly, inserted, lastNode, lastValue, lock,
                   hist, candidates>>

\* threads that insert into an index with max_size = MaxSizeCfg
InitCapacity ==
    /\ Init
    /\ max_size = MaxSizeCfg
    /\ max_depth = DefaultMaxDepth

NextCapacity ==
    \E t \in Threads :
        \/ \E key \in ThreadKeys : ThreadCallInsert(t, key)
        \/ ThreadTestInsert(t)
        \/ ThreadBodyInsert(t)
        \/ ThreadExitInsert(t)

SpecCapacity == InitCapacity /\ [][NextCapacity]_vars

\* the keys of the threads whose progress is followed
FairKeys == {1}

\* threads that call insert, delete and clear, with valid and invalid keys,
\* on an index with a limit on its size or on its height
InitFair ==
    /\ Init
    /\ <<max_size, max_depth>> \in {<<Cardinality(FairKeys), DefaultMaxDepth>>,
                                   <<None, Cardinality(FairKeys)>>}

\* Each call is taken here in the finest steps: the call (what runs before
\* "with self._lock"), the acquire of the lock, the statements of the with
\* block, and the end of the block, which releases the lock on a return and
\* on a raise alike.

\* clear() has nothing before its with block: the thread waits for the lock
ThreadCallClear(t) ==
    /\ thr[t].pc = "idle"
    /\ thr' = [thr EXCEPT ![t] = [IdleThread EXCEPT !.pc = "acquire",
                                                    !.op = "clear"]]
    /\ UNCHANGED <<root, size, max_size, max_depth, lastOp, lastKey, lastKeys,
                   lastResult, prev, insertOnly, inserted, lastNode, lastValue,
                   lock, hist, candidates>>

\* with self._lock: __enter__ acquires the RLock; a thread waits as long as
\* another thread owns it
ThreadAcquire(t) ==
    /\ thr[t].pc = "acquire"
    /\ thr[t].op \in {"insert", "delete", "clear"}
    /\ CanAcquire(lock, t)
    /\ lock' = acquire(lock, t)
    /\ thr' = [thr EXCEPT ![t] = [thr[t] EXCEPT !.pc = "locked"]]
    /\ UNCHANGED <<root, size, max_size, max_depth, lastOp, lastKey, lastKeys,
                   lastResult, prev, insertOnly, inserted, lastNode, lastValue,
                   hist, candidates>>

\* insert, inside the with block: the capacity test and the height test;
\* a failed test raises while the thread owns the lock
ThreadLockedInsert(t) ==
    /\ thr[t].pc = "locked"
    /\ thr[t].op = "insert"
    /\ thr' = [thr EXCEPT ![t] =
                 IF max_size # None /\ size >= max_size
                 THEN [thr[t] EXCEPT !.pc = "raising",
                                     !.result = "AVLTreeCapacityError"]
                 ELSE IF _get_height(root) >= max_depth
                 THEN [thr[t] EXCEPT !.pc = "raising",
                                     !.result = "AVLTreeDepthError"]
                 ELSE [thr[t] EXCEPT !.pc = "tested"]]
    /\ UNCHANGED <<root, size, max_size, max_depth, lastOp, lastKey, lastKeys,
                   lastResult, prev, insertOnly, inserted, lastNode, lastValue,
                   lock, hist, candidates>>

\* the exception leaves the with block: __exit__ releases the lock and the
\* call ends with the error
ThreadRaise(t) ==
    /\ thr[t].pc = "raising"
    /\ lock' = release(lock)
    /\ thr' = [thr EXCEPT ![t] = AfterInsert(thr[t], thr[t].result)]
    /\ UNCHANGED <<root, size, max_size, max_depth, lastOp, lastKey, lastKeys,
                   lastResult, prev, insertOnly, inserted, lastNode, lastValue,
                   hist, candidates>>

\* delete, inside the with block: the right-hand side of
\* self.root = self._delete_recursive(...)
ThreadLockedDelete(t) ==
    /\ thr[t].pc = "locked"
    /\ thr[t].op = "delete"
    /\ LET r == delete(Self, thr[t].key) IN
       /\ size' = r.size
       /\ root' = root_during_delete(root, thr[t].key, r.root)
       /\ thr' = [thr EXCEPT ![t] = [thr[t] EXCEPT !.pc = "held",
                                                    !.pending = r.root,
                                                    !.result = r.result]]
    /\ UNCHANGED <<max_size, max_depth, lastOp, lastKey, lastKeys, lastResult,
                   prev, insertOnly, inserted, lastNode, lastValue, lock,
                   hist, candidates>>

\* clear, inside the with block: self.root = None
ThreadLockedClear(t) ==
    /\ thr[t].pc = "locked"
    /\ thr[t].op = "clear"
    /\ root' = NoNode
    /\ thr' = [thr EXCEPT ![t] = [thr[t] EXCEPT !.pc = "held"]]
    /\ UNCHANGED <<size, max_size, max_depth, lastOp, lastKey, lastKeys,
                   lastResult, prev, insertOnly, inserted, lastNode, lastValue,
                   lock, hist, candidates>>

\* the steps a thread takes while it owns the lock
ThreadInBlock(t) ==
    \/ ThreadLockedInsert(t)
    \/ ThreadBodyInsert(t)
    \/ ThreadExitInsert(t)
    \/ ThreadRaise(t)
    \/ ThreadLockedDelete(t)
    \/ ThreadExitDelete(t)
    \/ ThreadLockedClear(t)
    \/ ThreadExitClear(t)

NextFair ==
    \E t \in Threads :
        \/ \E key \in FairKeys \cup {None} : ThreadCallInsert(t, key)
        \/ \E key \in FairKeys \cup {None} : ThreadCallDelete(t, key)
        \/ ThreadCallClear(t)
        \/ ThreadAcquire(t)
        \/ ThreadInBlock(t)

\* What the scheduling of the code gives, and no more.  A thread that owns
\* the lock is runnable and nothing in a with block waits for another
\* thread, so its next step is taken (weak fairness on the steps inside the
\* block).  A free RLock with waiting threads is taken by one of them (weak
\* fairness on the acquire of some thread); threading.RLock promises no
\* order among the waiting threads, so nothing says which one.  A thread
\* that is not in a call need not call again.
Fairness ==
    /\ \A t \in Threads : WF_vars(ThreadInBlock(t))
    /\ WF_vars(\E t \in Threads : ThreadAcquire(t))

SpecFair == InitFair /\ [][NextFair]_vars /\ Fairness

\* M threads that insert pairwise disjoint sets of keys, each key once, into
\* an index without limits
Own(t) == {k \in Keys : ((k - 1) % NThreads) + 1 = t}

InitDisjoint ==
    /\ Init
    /\ max_size = None
    /\ max_depth = DefaultMaxDepth

NextDisjoint ==
    \E t \in Threads :
        \/ \E key \in Own(t) \ inserted : ThreadCallInsert(t, key)
        \/ ThreadEnterInsert(t)
        \/ ThreadExitInsert(t)

SpecDisjoint == InitDisjoint /\ [][NextDisjoint]_vars

\* from_list whose loop of inserts is inside its with block
from_list_lock_kept_for_loop(l) == l

\* the lock when from_list goes on to its loop of inserts: the with block
\* has ended
from_list_lock_at_loop(l) == release(l)

\* thread t is inside from_list: past the start of its clearing and not yet
\* back from its last insert
InFromList(t) ==
    /\ thr[t].pc # "idle"
    /\ thr[t].op = "from_list" \/ thr[t].keys # <<>>

\* from_list: with self._lock: self.root = None.  at_call records the
\* content the index had when the call started.
ThreadEnterFromList(t, keys) ==
    /\ thr[t].pc = "idle"
    /\ CanAcquire(lock, t)
    /\ lock' = acquire(lock, t)
    /\ root' = NoNode
    /\ thr' = [thr EXCEPT ![t] = [IdleThread EXCEPT !.pc = "held",
                                                   !.op = "from_list",
                                                   !.keys = keys,
                                                   !.at_call = in_order_traversal(Self)]]
    /\ UNCHANGED <<size, max_size, max_depth, lastOp, lastKey, lastKeys,
                   lastResult, prev, insertOnly, inserted, lastNode, lastValue,
                   hist, candidates>>

\* from_list: self._size = 0, the end of the with block, and the start of
\* the loop "for key in keys: self.insert(key)"
ThreadExitFromListClear(t) ==
    /\ thr[t].pc = "held"
    /\ thr[t].op = "from_list"
    /\ size' = 0
    /\ lock' = from_list_lock_at_loop(lock)
    /\ thr' = [thr EXCEPT ![t] = AfterInsert(thr[t], "None")]
    /\ insertOnly' = FALSE
    /\ inserted' = {}
    /\ UNCHANGED <<root, max_size, max_depth, lastOp, lastKey, lastKeys,
                   lastResult, prev, lastNode, lastValue,
                   hist, candidates>>

\* in_order_traversal(): with self._lock: the traversal into a new list.
\* at_call records the ascending keys of the tree at that instant, during
\* the from_list calls of other threads that are in progress at that instant.
ThreadRead(t) ==
    /\ thr[t].pc = "idle"
    /\ CanAcquire(lock, t)
    /\ thr' = [thr EXCEPT ![t] =
                 [IdleThread EXCEPT
                    !.op = "in_order_traversal",
                    !.result = "returned",
                    !.snapshot = in_order_traversal(Self),
                    !.at_call = SortedSeq(KeysOf(root)),
                    !.during = {[before |-> thr[l].at_call, keys |-> thr[l].keys] :
                                   l \in {x \in Threads \ {t} : InFromList(x)}}]]
    /\ UNCHANGED <<root, size, max_size, max_depth, lastOp, lastKey, lastKeys,
                   lastResult, prev, insertOnly, inserted, lastNode, lastValue,
                   lock, hist, candidates>>

\* the lists the loading thread hands to from_list
ThreadLists == UNION {[1..n -> ThreadKeys] : n \in 0..(MaxLen + 1)}

\* thread 1 loads lists with from_list while the other threads read the
\* index and insert into it; no limits
NextLoad ==
    \E t \in Threads :
        \/ t = 1 /\ \E keys \in ThreadLists : ThreadEnterFromList(t, keys)
        \/ ThreadExitFromListClear(t)
        \/ t # 1 /\ \E key \in ThreadKeys : ThreadCallInsert(t, key)
        \/ ThreadEnterInsert(t)
        \/ ThreadExitInsert(t)
        \/ t # 1 /\ ThreadRead(t)

SpecLoad == InitDisjoint /\ [][NextLoad]_vars

\* the keys and lists of the threads that write to one index
WriterKeys == FairKeys

WriterLists == UNION {[1..n -> WriterKeys] : n \in 0..MaxLen}

\* every thread calls insert, delete, clear and from_list
NextWriters ==
    \E t \in Threads :
        \/ \E key \in WriterKeys : ThreadCallInsert(t, key)
        \/ ThreadTestInsert(t)
        \/ ThreadBodyInsert(t)
        \/ ThreadExitInsert(t)
        \/ \E key \in WriterKeys : ThreadCallDelete(t, key)
        \/ ThreadEnterDelete(t)
        \/ ThreadExitDelete(t)
        \/ ThreadEnterClear(t)
        \/ ThreadExitClear(t)
        \/ \E keys \in WriterLists : ThreadEnterFromList(t, keys)
        \/ ThreadExitFromListClear(t)

SpecWriters == InitThreads /\ [][NextWriters]_vars

\* __iter__: with self._lock: the traversal into the list snapshot.
\* at_call records the ascending keys of the tree at that instant.
ThreadIterStart(t) ==
    /\ thr[t].pc = "idle"
    /\ CanAcquire(lock, t)
    /\ thr' = [thr EXCEPT ![t] =
                 [IdleThread EXCEPT
                    !.pc = "yield",
                    !.op = "__iter__",
                    !.snapshot = _in_order_traversal(root, <<>>),
                    !.at_call = SortedSeq(KeysOf(root))]]
    /\ UNCHANGED <<root, size, max_size, max_depth, lastOp, lastKey, lastKeys,
                   lastResult, prev, insertOnly, inserted, lastNode, lastValue,
                   lock, hist, candidates>>

\* an iterator that walks the tree as it is when the next value is asked for
IterSource_live_tree(th) == in_order_traversal(Self)

\* the list the loop "for value in snapshot: yield value" walks
IterSource(th) == th.snapshot

\* the caller takes the next value of the generator, or finds it exhausted;
\* consumed is what the caller has got so far
ThreadIterNext(t) ==
    /\ thr[t].pc = "yield"
    /\ LET source == IterSource(thr[t]) IN
       thr' = [thr EXCEPT ![t] =
                 IF thr[t].i < Len(source)
                 THEN [thr[t] EXCEPT !.i = thr[t].i + 1,
                                     !.consumed = Append(thr[t].consumed,
                                                         source[thr[t].i + 1])]
                 ELSE [thr[t] EXCEPT !.pc = "idle", !.result = "StopIteration"]]
    /\ UNCHANGED <<root, size, max_size, max_depth, lastOp, lastKey, lastKeys,
                   lastResult, prev, insertOnly, inserted, lastNode, lastValue,
                   lock, hist, candidates>>

\* thread 1 iterates over the index and exports it while the other threads
\* insert, delete and clear; no limits
NextIter ==
    \E t \in Threads :
        \/ t = 1 /\ ThreadIterStart(t)
        \/ ThreadIterNext(t)
        \/ t = 1 /\ ThreadRead(t)
        \/ t # 1 /\ \E key \in ThreadKeys : ThreadCallInsert(t, key)
        \/ ThreadEnterInsert(t)
        \/ ThreadExitInsert(t)
        \/ t # 1 /\ \E key \in ThreadKeys : ThreadCallDelete(t, key)
        \/ ThreadEnterDelete(t)
        \/ ThreadExitDelete(t)
        \/ t # 1 /\ ThreadEnterClear(t)
        \/ ThreadExitClear(t)

SpecIter == InitDisjoint /\ [][NextIter]_vars

\* the operations that take the lock, read and return
LockedQueries == {"__len__", "__contains__", "size", "height", "is_empty"}

\* __len__, __contains__ and the properties: with self._lock: a read of
\* _size or root, or _search_unlocked
ThreadQuery(t, which) ==
    /\ thr[t].pc = "idle"
    /\ CanAcquire(lock, t)
    /\ thr' = [thr EXCEPT ![t] = [IdleThread EXCEPT !.op = which,
                                                   !.result = "returned"]]
    /\ UNCHANGED <<root, size, max_size, max_depth, lastOp, lastKey, lastKeys,
                   lastResult, prev, insertOnly, inserted, lastNode, lastValue,
                   lock, hist, candidates>>

\* every thread loads lists with from_list, inserts, exports (to_list calls
\* in_order_traversal), iterates and queries
NextNesting ==
    \E t \in Threads :
        \/ \E keys \in WriterLists : ThreadEnterFromList(t, keys)
        \/ ThreadExitFromListClear(t)
        \/ \E key \in WriterKeys : ThreadCallInsert(t, key)
        \/ ThreadTestInsert(t)
        \/ ThreadBodyInsert(t)
        \/ ThreadExitInsert(t)
        \/ ThreadRead(t)
        \/ ThreadIterStart(t)
        \/ ThreadIterNext(t)
        \/ \E which \in LockedQueries : ThreadQuery(t, which)

SpecNesting == InitDisjoint /\ [][NextNesting]_vars

(* -------------------------------- claims -------------------------------- *)

\* C1: while only insert has been called on an index that started empty, the
\* ascending export in_order_traversal() / to_list() is exactly the sorted
\* sequence of the keys whose insertion succeeded, each once.
C1_SortedExport ==
    insertOnly =>
        /\ in_order_traversal(Self) = SortedSeq(inserted)
        /\ to_list(Self) = SortedSeq(inserted)

\* C1 witness: four keys were inserted in an order that is not ascending
\* (ascending insertion of 1..4 leaves 2 at the root).
C1_Witness ==
    /\ insertOnly
    /\ Cardinality(inserted) = 4
    /\ root.val = 3
    /\ lastResult = "True"

\* C2: after every completed insert or delete every entry has
\* |height(left) - height(right)| <= 1 and a cached height equal to
\* 1 + max(height(left), height(right)), an absent child counting 0.
C2_BalancedAfterInsertDelete ==
    lastOp \in {"insert", "delete"} => IsBalanced(root)

\* C2 witness: a delete unlinked an entry of a tree of height 3 and the
\* tree had to be rotated (the root changed although its key was not the
\* deleted one).
C2_Witness ==
    /\ lastOp = "delete"
    /\ lastResult = "True"
    /\ LinkHeight(prev.root) = 3
    /\ lastKey # prev.root.val
    /\ root.val # prev.root.val

\* C3: after every completed insert, delete, clear and from_list the tree is
\* a strict binary search tree and no two entries hold equal keys.
C3_StrictBST ==
    lastOp \in {"insert", "delete", "clear", "from_list"} => IsStrictBST(root)

\* C3 witness: a delete removed the key of an entry with two children whose
\* in-order successor is not its right child.
C3_Witness ==
    /\ lastOp = "delete"
    /\ lastResult = "True"
    /\ lastKey \in KeysOf(prev.root)
    /\ PrevEntry.left # NoNode
    /\ PrevEntry.right # NoNode
    /\ PrevEntry.right.left # NoNode

\* C4: in every reachable state, also after a call that raised, size equals
\* the number of entries reachable from root and the length of
\* in_order_traversal().
C4_SizeIsNodeCount ==
    /\ size = NodeCount(root)
    /\ size = Len(in_order_traversal(Self))

\* C4 witness: a from_list call on an index that held two keys raised an
\* error.
C4_Witness ==
    /\ lastOp = "from_list"
    /\ lastResult \in Errors
    /\ prev.size = 2

\* C5: insert of a valid key that is not present, when neither the capacity
\* nor the depth limit rejects the call, returns True, increases size by
\* exactly 1 and makes the key set the old key set plus that key.
C5_InsertAbsent ==
    (/\ lastOp = "insert"
     /\ lastKey # None
     /\ lastKey \notin KeysOf(prev.root)
     /\ lastResult \notin {"AVLTreeCapacityError", "AVLTreeDepthError"})
    => /\ lastResult = "True"
       /\ size = prev.size + 1
       /\ lastKey \in KeysOf(root)
       /\ KeysOf(root) = KeysOf(prev.root) \cup {lastKey}

\* C5 witness: an absent key was inserted to the left of an existing entry.
C5_Witness ==
    /\ lastOp = "insert"
    /\ lastResult = "True"
    /\ prev.size >= 2
    /\ lastKey \notin KeysOf(prev.root)
    /\ \E k \in KeysOf(prev.root) : lastKey < k

\* C6: delete of a key that is present returns True, decreases size by
\* exactly 1 and makes the key set the old key set minus that key, whether
\* the entry holding it has 0, 1 or 2 children.
C6_DeletePresent ==
    (/\ lastOp = "delete"
     /\ lastKey \in KeysOf(prev.root))
    => /\ lastResult = "True"
       /\ size = prev.size - 1
       /\ lastKey \notin KeysOf(root)
       /\ KeysOf(root) = KeysOf(prev.root) \ {lastKey}

\* C6 witness: a delete removed the key of an entry that had only a left
\* child.
C6_Witness ==
    /\ lastOp = "delete"
    /\ lastKey \in KeysOf(prev.root)
    /\ PrevEntry.left # NoNode
    /\ PrevEntry.right = NoNode
    /\ size = prev.size - 1

\* C7: in every reachable state and under every max_size and max_depth,
\* insert of a key that is already present returns False (it does not
\* raise) and does not increase size.
C7_DuplicateInsertReturnsFalse ==
    (/\ lastOp = "insert"
     /\ lastKey \in KeysOf(prev.root))
    => /\ lastResult = "False"
       /\ size <= prev.size

\* C8: delete of a valid key that is not present returns False and leaves
\* every link, every cached height, every key and the size as they were.
C8_DeleteAbsentIsNoOp ==
    (/\ lastOp = "delete"
     /\ lastKey # None
     /\ lastKey \notin KeysOf(prev.root))
    => /\ lastResult = "False"
       /\ root = prev.root
       /\ size = prev.size

\* C8 witness: an absent key was deleted from a tree of three entries, on
\* a walk that went through the root and its right child.
C8_Witness ==
    /\ lastOp = "delete"
    /\ lastResult = "False"
    /\ lastKey # None
    /\ prev.size = 3
    /\ lastKey > prev.root.val
    /\ prev.root.right # NoNode
    /\ lastKey \notin KeysOf(prev.root)

\* the capacity test of insert, on the state the call started in
AtCapacity == max_size # None /\ prev.size >= max_size

\* C9: with max_size = N an insert of a new key into an index holding fewer
\* than N keys succeeds (the depth limit not being reached); an insert of a
\* further key into an index holding N keys raises the capacity error and
\* leaves size and the tree unchanged; size never exceeds max_size.
C9_CapacityBoundary ==
    /\ max_size # None => size <= max_size
    /\ (/\ lastOp = "insert"
        /\ lastKey # None
        /\ max_size # None)
       => /\ (/\ prev.size < max_size
              /\ lastKey \notin KeysOf(prev.root)
              /\ _get_height(prev.root) < max_depth)
             => (lastResult = "True" /\ size = prev.size + 1)
          /\ prev.size = max_size
             => /\ lastResult = "AVLTreeCapacityError"
                /\ size = max_size
                /\ root = prev.root

\* C9 witness: max_size = 2, two keys are stored and the insert of a third,
\* distinct key raised the capacity error.
C9_Witness ==
    /\ max_size = 2
    /\ lastOp = "insert"
    /\ lastResult = "AVLTreeCapacityError"
    /\ lastKey \notin KeysOf(root)
    /\ size = 2
    /\ Cardinality(KeysOf(root)) = 2

\* the depth at which the descent of _insert_recursive for a key ends: at
\* the absent child where the key would be attached or at the entry that
\* holds an equal key (the root is at depth 0)
RECURSIVE WalkDepth(_, _, _)
WalkDepth(node, key, depth) ==
    IF node = NoNode THEN depth
    ELSE IF key < node.val THEN WalkDepth(node.left, key, depth + 1)
    ELSE IF key > node.val THEN WalkDepth(node.right, key, depth + 1)
    ELSE depth

\* C10: insert raises the depth error only when the walk for the key goes
\* deeper than max_depth.  A walk that ends at depth d visits d + 1 levels;
\* the depth error is taken as justified as soon as d + 1 > max_depth, the
\* reading most favourable to the code (its own test is d > max_depth).
C10_DepthErrorOnlyWhenWalkTooDeep ==
    (/\ lastOp = "insert"
     /\ lastResult = "AVLTreeDepthError")
    => WalkDepth(prev.root, lastKey, 0) + 1 > max_depth

\* C11: whenever insert raises the depth error the tree is left unchanged:
\* no entry was created, no link, key or cached height was modified and
\* size is what it was before the call.
C11_DepthErrorLeavesTreeUnchanged ==
    (/\ lastOp = "insert"
     /\ lastResult = "AVLTreeDepthError")
    => /\ root = prev.root
       /\ size = prev.size

\* C11 witness: an insert of an absent key into an index holding two keys
\* raised the depth error.
C11_Witness ==
    /\ lastOp = "insert"
    /\ lastResult = "AVLTreeDepthError"
    /\ prev.size = 2
    /\ lastKey \notin KeysOf(prev.root)

\* C12: insert, delete and search called with None each raise the
\* key-validity error and leave root, size and every entry unchanged,
\* whatever the state of the index.
C12_NoneKeyRaisesAndChangesNothing ==
    (/\ lastOp \in {"insert", "delete", "search"}
     /\ lastKey = None)
    => /\ lastResult = "AVLTreeKeyError"
       /\ root = prev.root
       /\ size = prev.size

\* C12 witness: search(None) was called on an index holding three keys.
C12_Witness ==
    /\ lastOp = "search"
    /\ lastKey = None
    /\ prev.size = 3
    /\ lastResult = "AVLTreeKeyError"

\* C13: for a valid key k, search(k) returns an entry whose key is k exactly
\* when k is in the ascending export and returns None otherwise; k in tree
\* gives the same answer; neither changes root, size, links or heights.
C13_SearchAgreesWithExport ==
    LET present == \E i \in DOMAIN in_order_traversal(Self) :
                       in_order_traversal(Self)[i] = lastKey
    IN  /\ (lastOp = "search" /\ lastKey # None)
           => /\ lastResult = "returned"
              /\ present => (lastNode # NoNode /\ lastNode.val = lastKey)
              /\ ~present => lastNode = NoNode
              /\ root = prev.root
              /\ size = prev.size
        /\ (lastOp = "contains" /\ lastKey # None)
           => /\ lastResult = (IF present THEN "True" ELSE "False")
              /\ (lastResult = "True")
                 <=> (search(Self, lastKey).node # NoNode)
              /\ root = prev.root
              /\ size = prev.size

\* C13 witness: search found a key that lies two links below the root, on
\* the right side.
C13_Witness ==
    /\ lastOp = "search"
    /\ lastNode # NoNode
    /\ lastKey > root.val
    /\ root.right.val # lastKey

\* C14: get_min() and get_max() return None on an empty index and otherwise
\* the first and the last element of in_order_traversal(), and leave the
\* index unchanged.
C14_MinMaxAreEndsOfExport ==
    LET export == in_order_traversal(Self) IN
    /\ lastOp = "get_min"
       => /\ lastValue = (IF export = <<>> THEN None ELSE export[1])
          /\ root = prev.root
          /\ size = prev.size
    /\ lastOp = "get_max"
       => /\ lastValue = (IF export = <<>> THEN None ELSE export[Len(export)])
          /\ root = prev.root
          /\ size = prev.size

\* C14 witness: get_max answered on an index whose greatest key is not at
\* the root.
C14_Witness ==
    /\ lastOp = "get_max"
    /\ root # NoNode
    /\ lastValue # root.val

\* C19: round trip.  On every reachable index, from_list(to_list(T))
\* completes without an error and leaves an index whose to_list() is the
\* to_list() taken before the call, with the same size and with the balance,
\* cached-height and ordering invariants holding.
C19_RoundTrip ==
    lastOp = "round_trip"
    => /\ lastResult = "None"
       /\ lastKeys = to_list(prev)
       /\ to_list(Self) = lastKeys
       /\ size = prev.size
       /\ IsBalanced(root)
       /\ IsStrictBST(root)

\* C19 witness: the round trip of an index holding four keys changed its
\* shape (another key came to the root).
C19_Witness ==
    /\ lastOp = "round_trip"
    /\ prev.size = 4
    /\ root.val # prev.root.val

\* C20: in one thread, from_list(keys) leaves the index in exactly the state
\* (shape, heights, size, keys) and raises exactly the error that clear()
\* followed by insert(k) for each k of keys, in order, would, whatever the
\* index held before.
C20_FromListIsClearThenInserts ==
    lastOp = "from_list"
    => LET client == ClearThenInsertEach(prev, lastKeys, Len(lastKeys)) IN
       /\ root = client.root
       /\ size = client.size
       /\ (lastResult \in Errors) = (client.result \in Errors)
       /\ lastResult \in Errors => lastResult = client.result

\* C20 witness: from_list of two keys on an index that held three keys
\* stored the first and raised on the second.
C20_Witness ==
    /\ lastOp = "from_list"
    /\ Len(lastKeys) = 2
    /\ prev.size = 3
    /\ size = 1
    /\ lastResult \in Errors

\* C15: when the threads insert pairwise disjoint sets of distinct keys into
\* one index and no limit is hit, then once every thread has finished, size
\* is the total number of keys, every key is present exactly once, and the
\* balance and ordering invariants hold, whatever the interleaving.
C15_DisjointInsertsAllArrive ==
    (/\ \A t \in Threads : thr[t].pc = "idle"
     /\ \A t \in Threads : Own(t) \subseteq inserted)
    => /\ size = Cardinality(UNION {Own(t) : t \in Threads})
       /\ in_order_traversal(Self) = SortedSeq(UNION {Own(t) : t \in Threads})
       /\ NodeCount(root) = size
       /\ IsBalanced(root)
       /\ IsStrictBST(root)

\* C15 witness: every thread has finished, and at the end the keys of thread
\* 1 are both below the root (its calls were interleaved with the others').
C15_Witness ==
    /\ \A t \in Threads : thr[t].pc = "idle"
    /\ \A t \in Threads : Own(t) \subseteq inserted
    /\ size = MaxKey
    /\ root.val \notin Own(1)

\* C16: at every point at which no thread holds the lock the shared tree is
\* fully consistent: size is the number of reachable entries and the
\* ordering, balance and cached-height invariants hold.
C16_ConsistentWhenLockFree ==
    lock.owner = 0
    => /\ size = NodeCount(root)
       /\ IsBalanced(root)
       /\ IsStrictBST(root)

\* C16 witness: the lock is free on an index of three keys while a thread is
\* waiting to enter its critical section.
C16_Witness ==
    /\ lock.owner = 0
    /\ size = 3
    /\ \E t \in Threads : thr[t].pc = "acquire"

\* C17: from_list(keys) is atomic with respect to the other threads: it
\* holds the lock from its clearing of the tree to its last insertion, and a
\* concurrent reader sees the content before the call or the fully rebuilt
\* content, never an empty or partially rebuilt tree.
C17_FromListAtomic ==
    /\ \A t \in Threads : InFromList(t) => lock.owner = t
    /\ \A t \in Threads : \A c \in thr[t].during :
          \/ thr[t].snapshot = c.before
          \/ thr[t].snapshot = to_list(from_list([root |-> NoNode, size |-> 0], c.keys))

\* C18: what iterating the index (__iter__) or in_order_traversal() hands to
\* the caller is the ascending key sequence the tree had at the instant the
\* snapshot was copied under the lock; inserts, deletes and clears made by
\* any thread after that instant change neither the elements nor the length
\* of what the caller consumes.
C18_SnapshotIsolation ==
    \A t \in Threads :
        /\ thr[t].op = "__iter__"
           => /\ Len(thr[t].consumed) <= Len(thr[t].at_call)
              /\ thr[t].consumed = SubSeq(thr[t].at_call, 1, Len(thr[t].consumed))
              /\ thr[t].pc = "idle" => thr[t].consumed = thr[t].at_call
        /\ thr[t].op = "in_order_traversal"
           => thr[t].snapshot = thr[t].at_call

\* C18 witness: an iteration ran to its end and handed out two keys although
\* the index was emptied by another thread after the first of them.
C18_Witness ==
    \E t \in Threads :
        /\ thr[t].op = "__iter__"
        /\ thr[t].pc = "idle"
        /\ Len(thr[t].consumed) = 2
        /\ root = NoNode
        /\ size = 0

\* C21: from_list(keys) silently skips every element that equals a key
\* inserted earlier in the same call: the element at which from_list raises
\* is never such a duplicate, for every list and every max_size, and when
\* from_list returns, the export is the sorted set of the keys of the list.
C21_FromListSkipsDuplicates ==
    lastOp = "from_list"
    => /\ lastResult \in Errors
          => LET failed == CHOOSE n \in 1..Len(lastKeys) :
                              /\ ClearThenInsertEach(prev, lastKeys, n).result \in Errors
                              /\ \A m \in 1..(n - 1) :
                                    ClearThenInsertEach(prev, lastKeys, m).result \notin Errors
             IN  \A j \in 1..(failed - 1) : lastKeys[j] # lastKeys[failed]
       /\ lastResult \notin Errors
          => to_list(Self) = SortedSeq({lastKeys[j] : j \in 1..Len(lastKeys)})

\* C23: clear() on any reachable index leaves root absent, size 0 and an
\* empty export, and leaves max_size and max_depth as they were, so that an
\* insert into the cleared index does what it does on a freshly constructed
\* index of the same configuration.
C23_ClearResets ==
    [][lastOp' = "clear"
       => /\ root' = NoNode
          /\ size' = 0
          /\ in_order_traversal([root |-> root', size |-> size']) = <<>>
          /\ max_size' = max_size
          /\ max_depth' = max_depth
          /\ \A key \in KeyArgs :
                insert([root |-> root', size |-> size'], key)
                    = insert([root |-> NoNode, size |-> 0], key)]_vars

\* C23 witness: clear() was called on an index that held four keys.
C23_Witness ==
    /\ lastOp = "clear"
    /\ prev.size = 4
    /\ root = NoNode

\* C28: pre_order_traversal() lists each entry before its left subtree and
\* the left subtree before the right one, post_order_traversal() lists left
\* subtree, right subtree, entry; on every reachable tree both are
\* permutations of in_order_traversal() of length size, pre-order begins and
\* post-order ends with the root key, and a traversal called again without
\* a mutation in between returns the same sequence.
C28_Traversals ==
    LET pre == pre_order_traversal(Self)
        post == post_order_traversal(Self)
        inorder == in_order_traversal(Self)
    IN  /\ pre = PreOrder(root)
        /\ post = PostOrder(root)
        /\ Len(pre) = size /\ Len(post) = size /\ Len(inorder) = size
        /\ Range(pre) = Range(inorder) /\ Range(post) = Range(inorder)
        /\ Cardinality(Range(inorder)) = size
        /\ root # NoNode => pre[1] = root.val /\ post[Len(post)] = root.val
        /\ lastOp \in {"in_order_traversal", "pre_order_traversal",
                       "post_order_traversal"}
           => /\ root = prev.root
              /\ size = prev.size
              /\ lastOp = "in_order_traversal" => lastKeys = inorder
              /\ lastOp = "pre_order_traversal" => lastKeys = pre
              /\ lastOp = "post_order_traversal" => lastKeys = post

\* C28 witness: post_order_traversal() was called on an index of four keys
\* and returned a sequence that is neither the ascending nor the pre-order
\* one.
C28_Witness ==
    /\ lastOp = "post_order_traversal"
    /\ size = 4
    /\ lastKeys # in_order_traversal(Self)
    /\ lastKeys # pre_order_traversal(Self)

\* C22, as stated: the order of insertion does not affect the final shape.
\* Two orderings of the same set of distinct keys give from_list trees with
\* the same root and the same parent/child structure (identical
\* pre_order_traversal()).  In SpecOrder prev is the tree from_list built
\* from an earlier ordering.
C22_OrderIndependentShape ==
    (/\ lastOp = "from_list"
     /\ prev.root # NoNode
     /\ Range(lastKeys) = KeysOf(prev.root))
    => /\ root.val = prev.root.val
       /\ pre_order_traversal(Self) = pre_order_traversal(prev)

\* C22, amended: two orderings of the same set of distinct keys give
\* from_list trees with the same ascending export and the same size, each
\* satisfying the ordering, balance and cached-height invariants; root and
\* shape may differ.
C22_OrderIndependentContent ==
    (/\ lastOp = "from_list"
     /\ Range(lastKeys) = KeysOf(prev.root))
    => /\ lastResult = "None"
       /\ in_order_traversal(Self) = in_order_traversal(prev)
       /\ size = prev.size
       /\ IsBalanced(root) /\ IsStrictBST(root)
       /\ IsBalanced(prev.root) /\ IsStrictBST(prev.root)

\* C22 witness: two orderings of four keys gave trees with different roots.
C22_Witness ==
    /\ lastOp = "from_list"
    /\ Range(lastKeys) = KeysOf(prev.root)
    /\ size = 4
    /\ root.val # prev.root.val

\* C24, as stated: in every reachable state size is the number of distinct
\* keys ever inserted minus the number of distinct keys ever successfully
\* deleted, over any history of insert and delete calls, those that delete a
\* key and insert it again included.
C24_SizeIsEverInsertedMinusEverDeleted ==
    size = Cardinality(hist.ever_inserted) - Cardinality(hist.ever_deleted)

\* C24, amended: in every reachable state size is the number of distinct
\* keys whose latest successful call was an insert (inserted and not
\* successfully deleted since), and these are the keys of the tree.
C24_SizeIsLiveKeys ==
    /\ size = Cardinality(hist.live)
    /\ KeysOf(root) = hist.live
    /\ hist.live = (hist.ever_inserted \ hist.ever_deleted)
                       \cup (hist.live \cap hist.ever_deleted)

\* C24 witness: a key was deleted and inserted again, and the index holds
\* three keys.
C24_Witness ==
    /\ lastOp = "insert"
    /\ lastResult = "True"
    /\ lastKey \in hist.ever_deleted
    /\ size = 3

\* C26: inserting 1, 2, 3, 4, 5, 6, 7 in that order into an empty index:
\* after the third insertion exactly one rotation has been performed and the
\* root key is 2; after each of the seven insertions every entry has
\* |balance| <= 1.
C26_AscendingInserts ==
    /\ hist.log = <<1, 2, 3>>
       => /\ hist.rotations = 1
          /\ root.val = 2
    /\ (/\ Len(hist.log) <= 7
        /\ \A j \in DOMAIN hist.log : hist.log[j] = j)
       => \A n \in Subtrees(root) : Abs(_get_balance_factor(n)) <= 1

\* C26 witness: 1, ..., 7 have been inserted in that order.
C26_Witness ==
    /\ hist.log = <<1, 2, 3, 4, 5, 6, 7>>
    /\ size = 7

\* C30: _rebalance applied to an entry whose two subtrees are valid AVL
\* trees and whose balance factor is in -2..2 (cached height correct) returns
\* the root of a valid AVL subtree with the same in-order key sequence.
\* Balance > 1 and left child's balance >= 0: single right rotation; balance
\* > 1 and left child's balance < 0: left rotation of the left child, then
\* right rotation; balance < -1 and right child's balance <= 0: single left
\* rotation; balance < -1 and right child's balance > 0: right rotation of
\* the right child, then left rotation; otherwise the same entry.
C30_Rebalance ==
    lastOp = "_rebalance"
    => LET node == prev.root
           out == lastNode
           balance == _get_height(node.left) - _get_height(node.right)
           RightRotated(z) ==
               Entry(z.left.val, z.left.left, Entry(z.val, z.left.right, z.right))
           LeftRotated(z) ==
               Entry(z.right.val, Entry(z.val, z.left, z.right.left), z.right.right)
           BalanceOf(n) == _get_height(n.left) - _get_height(n.right)
       IN  /\ IsBalanced(out)
           /\ IsStrictBST(out)
           /\ _in_order_traversal(out, <<>>) = _in_order_traversal(node, <<>>)
           /\ (balance > 1 /\ BalanceOf(node.left) >= 0)
              => out = RightRotated(node)
           /\ (balance > 1 /\ BalanceOf(node.left) < 0)
              => out = RightRotated(Entry(node.val, LeftRotated(node.left), node.right))
           /\ (balance < -1 /\ BalanceOf(node.right) <= 0)
              => out = LeftRotated(node)
           /\ (balance < -1 /\ BalanceOf(node.right) > 0)
              => out = LeftRotated(Entry(node.val, node.left, RightRotated(node.right)))
           /\ (balance >= -1 /\ balance <= 1) => out = node

\* C30 witness: _rebalance was applied to a left-heavy entry whose left
\* child is right-heavy (the double rotation).
C30_Witness ==
    /\ lastOp = "_rebalance"
    /\ _get_balance_factor(prev.root) = 2
    /\ _get_balance_factor(prev.root.left) < 0
    /\ lastNode.val = prev.root.left.right.val

\* C25: is_valid_avl() returns true exactly when every entry satisfies all
\* three of: strict BST ordering with respect to all its ancestors (every
\* key of its left subtree is smaller, every key of its right subtree
\* greater), |balance factor| <= 1, and cached height = 1 + max(child
\* heights); it returns false when some entry violates one of them and true
\* for the empty tree.
C25_IsValidAvl ==
    lastOp = "is_valid_avl"
    => LET Ordered(n) == /\ \A m \in Subtrees(n.left) : m.val < n.val
                         /\ \A m \in Subtrees(n.right) : m.val > n.val
           Balanced(n) == Abs(_get_height(n.left) - _get_height(n.right)) <= 1
           HeightCached(n) ==
               n.height = 1 + max(_get_height(n.left), _get_height(n.right))
       IN  /\ (lastResult = "True")
              <=> \A n \in Subtrees(root) : Ordered(n) /\ Balanced(n) /\ HeightCached(n)
           /\ root = NoNode => lastResult = "True"
           /\ root = prev.root /\ size = prev.size

\* C25 witness: is_valid_avl() returned false on a tree in which every entry
\* is in order with its own children, balanced and of correct cached height:
\* the misplaced key is detected against an ancestor further up.
C25_Witness ==
    /\ lastOp = "is_valid_avl"
    /\ lastResult = "False"
    /\ \A n \in Subtrees(root) :
          /\ n.left # NoNode => n.left.val < n.val
          /\ n.right # NoNode => n.right.val > n.val
          /\ Abs(_get_height(n.left) - _get_height(n.right)) <= 1
          /\ n.height = 1 + max(_get_height(n.left), _get_height(n.right))

\* the states of a thread between the acquire and the release of the lock
InBlock == {"locked", "tested", "raising", "held"}

\* some thread waits for the lock
SomeWaiter == \E t \in Threads : thr[t].pc = "acquire"

\* C27: every public operation that acquires the lock eventually completes
\* and releases it, whether it returns normally or raises a capacity or
\* depth error (a key-validity error is raised before the lock is asked
\* for): a thread that is not in a call does not own the lock, the owner of
\* the lock is inside its with block, a thread that raises inside the block
\* still owns the lock, and every owner ends its call and no longer owns the
\* lock.  Hence, under the scheduling the code has (a runnable owner runs, a
\* free lock with waiting threads is taken by one of them), whenever some
\* thread waits for the lock some thread acquires it, and in every
\* reachable state some thread can take a step (no deadlock).  Which of the
\* waiting threads acquires the lock is not determined.
C27_OwnersReleaseAndSomeWaiterAcquires ==
    /\ [](\A t \in Threads : thr[t].pc \in {"idle", "acquire"} => lock.owner # t)
    /\ [](\A t \in Threads : thr[t].pc \in InBlock => lock.owner = t)
    /\ [](\E t \in Threads :
             \/ thr[t].pc \in {"idle"} \cup InBlock
             \/ thr[t].pc = "acquire" /\ CanAcquire(lock, t))
    /\ \A t \in Threads :
           (lock.owner = t) ~> (thr[t].pc = "idle" /\ lock.owner # t)
    /\ (SomeWaiter /\ lock.owner = 0) ~> (lock.owner # 0)

\* C27 as stated: under fair scheduling every thread that waits for the
\* lock eventually acquires it.
C27_EveryWaiterAcquires ==
    \A t \in Threads : (thr[t].pc = "acquire") ~> (lock.owner = t)

\* C27 witness: a thread that raised a capacity or depth error inside its
\* with block still owns the lock, while another thread waits for the lock
\* in clear().
C27_Witness ==
    \E t, u \in Threads :
        /\ t # u
        /\ lock.owner = t
        /\ thr[t].pc = "raising"
        /\ thr[t].result \in {"AVLTreeCapacityError", "AVLTreeDepthError"}
        /\ thr[u].pc = "acquire"
        /\ thr[u].op = "clear"

\* C29: get_rank(candidate_id) of a tracked candidate equals its 1-based
\* position in the reversed ascending export of the score tree (1 = highest
\* composite key), so that over all tracked candidates the ranks are
\* pairwise distinct and are exactly 1..n; it returns None for an unknown id.
C29_RankIsPositionFromTop ==
    lastOp = "get_rank"
    => LET tracked == DOMAIN candidates
           KeyOf(c) == CompositeKey(candidates[c], c)
           Rank(c) == get_rank(candidates, Self, c)
       IN  /\ lastKey \notin tracked => lastValue = None
           /\ lastKey \in tracked
              => /\ KeyOf(lastKey) \in KeysOf(root)
                 /\ lastValue = 1 + Cardinality({k \in KeysOf(root) : k > KeyOf(lastKey)})
           /\ \A c, d \in tracked : c # d => Rank(c) # Rank(d)
           /\ {Rank(c) : c \in tracked} = 1..Cardinality(tracked)

\* C31: a single rotation (_rotate_left or _rotate_right) preserves the
\* in-order key sequence and the set of entries of the subtree, moves only
\* the displaced middle subtree between the two exchanged entries, and
\* afterwards both exchanged entries have cached height == 1 + max(child
\* heights), the lower entry's height being recomputed before the new
\* subtree root's (so the new root's height counts the lower entry's new
\* height).
C31_Rotation ==
    lastOp \in {"_rotate_left", "_rotate_right"}
    => LET z == prev.root
           y == lastNode
           HeightCached(n) ==
               n.height = 1 + max(_get_height(n.left), _get_height(n.right))
       IN  /\ _in_order_traversal(y, <<>>) = _in_order_traversal(z, <<>>)
           /\ {n.val : n \in Subtrees(y)} = {n.val : n \in Subtrees(z)}
           /\ NodeCount(y) = NodeCount(z)
           /\ lastOp = "_rotate_left"
              => /\ y.val = z.right.val
                 /\ y.left.val = z.val
                 /\ y.left.left = z.left
                 /\ y.left.right = z.right.left
                 /\ y.right = z.right.right
                 /\ HeightCached(y.left)
           /\ lastOp = "_rotate_right"
              => /\ y.val = z.left.val
                 /\ y.right.val = z.val
                 /\ y.right.right = z.right
                 /\ y.right.left = z.left.right
                 /\ y.left = z.left.left
                 /\ HeightCached(y.right)
           /\ HeightCached(y)

\* C31 witness: a right rotation moved a non-empty middle subtree and the
\* height of the entry that went down changed.
C31_Witness ==
    /\ lastOp = "_rotate_right"
    /\ prev.root.left.right # NoNode
    /\ lastNode.right.left = prev.root.left.right
    /\ lastNode.right.height # prev.root.height

\* C32: when delete removes a key held by an entry with two children, that
\* entry stays in the tree with its key overwritten by its in-order successor
\* (the smallest key of its right subtree): the successor key is still in the
\* tree, the key is not, and the export is the old one without the key.  The
\* entry unlinked is the successor entry, which has no left child (so the
\* nested removal ends in the 0- or 1-child case), and size is decremented
\* exactly once.  Where the entry is the root: it is still the root with its
\* left subtree untouched, or the rebalancing at the root rotated it to the
\* right of the new root; in both cases it holds the successor key above
\* what is left of its right subtree.
C32_TwoChildDelete ==
    LET E == EntryWithKey(prev.root, lastKey)
        TwoChildren == E # NoNode /\ E.left # NoNode /\ E.right # NoNode
        s == CHOOSE k \in KeysOf(E.right) : \A j \in KeysOf(E.right) : k <= j
        S == EntryWithKey(prev.root, s)
        Kept == IF root.val = s THEN root ELSE root.right
    IN  lastOp = "delete" /\ lastKey # None /\ TwoChildren
        => /\ lastResult = "True"
           /\ size = prev.size - 1
           /\ NodeCount(root) = size
           /\ KeysOf(root) = KeysOf(prev.root) \ {lastKey}
           /\ in_order_traversal(Self) = SortedSeq(KeysOf(prev.root) \ {lastKey})
           /\ S.left = NoNode
           /\ IsBalanced(root) /\ IsStrictBST(root)
           /\ E = prev.root
              => /\ Kept # NoNode
                 /\ Kept.val = s
                 /\ KeysOf(Kept.right) = KeysOf(E.right) \ {s}
                 /\ root.val = s => root.left = E.left
                 /\ root.val # s => root.val \in KeysOf(E.left)

\* C32 witness: delete removed the key of a two-child root whose successor
\* was not its right child and the root kept its place with the successor's
\* key.
C32_Witness ==
    /\ lastOp = "delete"
    /\ lastResult = "True"
    /\ prev.root # NoNode
    /\ prev.root.val = lastKey
    /\ prev.root.left # NoNode
    /\ prev.root.right # NoNode
    /\ prev.root.right.left # NoNode
    /\ root.val = _get_min_node(prev.root.right).val
    /\ root.left = prev.root.left
    /\ size = prev.size - 1

\* C33: the failure checks of insert are ordered: a None key is rejected with
\* the key-validity error, the tree unchanged, whatever the state of the
\* index, also at max_size or at max_depth; for a valid key, when both the
\* capacity condition (size >= max_size) and the depth condition (height >=
\* max_depth) hold, the capacity error is raised, not the depth error.
C33_InsertCheckOrder ==
    lastOp = "insert"
    => /\ lastKey = None
          => /\ lastResult = "AVLTreeKeyError"
             /\ root = prev.root /\ size = prev.size
       /\ (/\ lastKey # None
           /\ max_size # None
           /\ prev.size >= max_size
           /\ LinkHeight(prev.root) >= max_depth)
          => /\ lastResult = "AVLTreeCapacityError"
             /\ root = prev.root /\ size = prev.size

\* C33 witness: an insert of a valid key on a non-empty index that was both
\* at max_size and at max_depth raised the capacity error.
C33_Witness ==
    /\ lastOp = "insert"
    /\ lastKey # None
    /\ max_size # None
    /\ prev.size >= max_size
    /\ prev.size > 0
    /\ LinkHeight(prev.root) >= max_depth
    /\ lastResult = "AVLTreeCapacityError"

\* C34: with max_size = N and threads inserting concurrently, size never
\* exceeds N in any reachable state under any interleaving (nor does the
\* number of entries in the tree): the capacity test and the creation of
\* the entry happen inside one critical section, so two threads cannot both
\* pass the test when only one slot is left.
C34_SizeNeverExceedsMax ==
    /\ size <= max_size
    /\ NodeCount(root) <= max_size
    /\ Cardinality({t \in Threads : thr[t].pc = "tested"}) <= 1
    /\ \A t \in Threads : thr[t].pc = "tested" => size < max_size

\* C34 witness: one slot is left, one thread has passed the capacity test
\* and another thread is waiting to make it.
C34_Witness ==
    \E t, u \in Threads :
        /\ t # u
        /\ size = max_size - 1
        /\ thr[t].pc = "tested"
        /\ thr[u].pc = "acquire"
        /\ thr[u].key # thr[t].key

\* thread t is inside a with self._lock block
Inside(t) == thr[t].pc \in {"tested", "held"}

\* the step is one of thread t and of no other thread
SteppedAlone(t) ==
    thr'[t] # thr[t] /\ \A u \in Threads \ {t} : thr'[u] = thr[u]

\* C35: at most one thread is inside a critical section of the index at any
\* time, and it is the owner of the lock; root (with the child links, cached
\* heights and keys below it) and the size counter are written only in a
\* step of a thread that holds the lock during that step.
C35_MutualExclusion ==
    /\ [](Cardinality({t \in Threads : Inside(t)}) <= 1)
    /\ [](\A t \in Threads : Inside(t) => lock.owner = t /\ lock.count >= 1)
    /\ [][(root' # root \/ size' # size)
           => \E t \in Threads :
                 /\ SteppedAlone(t)
                 /\ lock.owner = t \/ (lock.owner = 0 /\ lock'.owner = t)]_vars

\* C35 witness: a thread is inside the critical section of from_list, with
\* the root already written, while another thread waits for the lock.
C35_Witness ==
    \E t, u \in Threads :
        /\ t # u
        /\ thr[t].pc = "held"
        /\ thr[t].op = "from_list"
        /\ lock.owner = t
        /\ root = NoNode
        /\ size > 0
        /\ thr[u].pc = "acquire"

\* C36: when from_list(keys) fails with a key-validity or a capacity error
\* (an invalid element in keys, or more distinct keys than max_size), the
\* tree is left unchanged: it holds the same keys and size as before the
\* call.
C36_FailedFromListChangesNothing ==
    (lastOp = "from_list" /\ lastResult \in {"AVLTreeKeyError", "AVLTreeCapacityError"})
    => /\ KeysOf(root) = KeysOf(prev.root)
       /\ size = prev.size

\* C37: in every state reachable by insert, delete, clear and from_list on
\* an index constructed with max_depth = D >= 0, the height of the tree is
\* at most D; as a consequence the depth test inside the recursive insertion
\* (depth > max_depth) is never true once the height test has passed, and
\* every depth error comes from the height test made before the descent
\* starts.
C37_HeightAtMostMaxDepth ==
    /\ LinkHeight(root) <= max_depth
    /\ _get_height(root) <= max_depth
    /\ \A key \in Keys :
          _get_height(root) < max_depth => ~_insert_recursive(root, key, 0).raised
    /\ (lastOp = "insert" /\ lastResult = "AVLTreeDepthError")
       => _get_height(prev.root) >= max_depth

\* C37 witness: an insert raised the depth error on a tree of two levels
\* that had reached max_depth.
C37_Witness ==
    /\ lastOp = "insert"
    /\ lastResult = "AVLTreeDepthError"
    /\ max_depth = 2
    /\ LinkHeight(root) = max_depth
    /\ root = prev.root

\* C38: no thread ever holds the index's lock with nesting depth greater
\* than 1: no public operation (including to_list, from_list, __contains__,
\* __iter__, __len__ and the properties) calls another lock-acquiring
\* operation while it holds the lock, so a thread that is about to ask for
\* the lock never owns it and the re-entrant capability is never exercised.
C38_NoNestedLocking ==
    /\ lock.count <= 1
    /\ \A t \in Threads : ~Inside(t) => lock.owner # t

\* C38 witness: a thread is inside the critical section of an insert that
\* its from_list called, holding the lock once.
C38_Witness ==
    \E t \in Threads :
        /\ thr[t].keys # <<>>
        /\ thr[t].op = "insert"
        /\ thr[t].pc = "held"
        /\ lock = [owner |-> t, count |-> 1]

\* C39: after any sequence of add_candidate and remove_candidate calls on a
\* tracker (including calls that raise), the set of candidate ids held in
\* the candidate dictionary equals the set of ids appearing in composite
\* keys of the score tree, each id appearing in exactly one composite key,
\* so total_candidates (the length of the dictionary) equals the score
\* tree's size.
C39_DictionaryMatchesScoreTree ==
    /\ DOMAIN candidates = {IdOf(k) : k \in KeysOf(root)}
    /\ \A c \in DOMAIN candidates :
          Cardinality({k \in KeysOf(root) : IdOf(k) = c}) = 1
    /\ Cardinality(DOMAIN candidates) = size

====
